---------------------------- MODULE Spec2Model ----------------------------
(***************************************************************************)
(* Model of the Reverge Package File Library (RPFL): the archive writer,   *)
(* the binary codec, the memory mapped file, the archive reader and the    *)
(* per-entry residency object (ArchiveFile).                               *)
(*                                                                         *)
(* Bytes are numbers 0..255.  Text (identifier, version, paths) is a       *)
(* sequence of bytes.  A fixed-width unsigned integer of the program is a  *)
(* sequence of base-256 limbs, least significant limb first: 4 limbs for   *)
(* std::uint32_t and 8 limbs for std::uint64_t / std::size_t, so that the  *)
(* arithmetic keeps the width it has in the program.                       *)
(***************************************************************************)
EXTENDS Integers, Sequences, FiniteSets, TLC

VARIABLES
    native,              \* std::endian::native of the build: "little" or "big"
    phase,               \* "writing", "reading", "layout", or "crashed" after a fault
    w_identifier,        \* ArchiveWriter::identifier_
    w_version,           \* ArchiveWriter::version_
    w_endianness,        \* ArchiveWriter::endianness_
    w_default_alignment, \* ArchiveWriter::default_alignment_
    w_files,             \* ArchiveWriter::files_, in its iteration order
    w_ret,               \* what the last ArchiveWriter call returned or raised
    disk,                \* the bytes of the archive file
    mm,                  \* ArchiveReader::mmap_file_ (MemoryMappedFile)
    r_is_open,           \* ArchiveReader::is_open_
    r_header,            \* ArchiveReader::header_
    r_files,             \* ArchiveReader::files_
    r_file_map,          \* ArchiveReader::file_map_ : path -> index into r_files
    r_cfg,               \* cache_threshold_, lazy_load_, allow_streaming_, file_endianness_
    r_ret,               \* what the last ArchiveReader / ArchiveFile call returned or raised
    first_read,          \* history: per entry, the bytes of its first data(), released since
    lay,                 \* the layout computation on 64-bit sizes (SpecLayout)
    held,                \* the spans of ArchiveFile::data() a caller still holds
    streams              \* the streams of ArchiveFile::open_stream() a caller still holds

vars == <<native, phase, w_identifier, w_version, w_endianness, w_default_alignment,
          w_files, w_ret, disk, mm, r_is_open, r_header, r_files, r_file_map, r_cfg,
          r_ret, first_read, lay, held, streams>>

writerVars == <<w_identifier, w_version, w_endianness, w_default_alignment, w_files>>

readerVars == <<mm, r_is_open, r_header, r_files, r_file_map, r_cfg>>

-----------------------------------------------------------------------------
(* Bounds of the model *)

\* the largest number of entries the writer's table holds in the model
MaxFiles == 2

\* the largest number of rows of a layout table (SpecLayout)
MaxRows == 2

\* the largest number of spans and streams a caller keeps (SpecHold)
MaxKept == 2

-----------------------------------------------------------------------------
(* Fixed-width unsigned integers *)

\* the w-limb representation of a natural number n < 2^31
ToU(n, w) ==
    [i \in 1..w |-> IF i = 1 THEN n % 256
                    ELSE IF i = 2 THEN (n \div 256) % 256
                    ELSE IF i = 3 THEN (n \div 65536) % 256
                    ELSE IF i = 4 THEN n \div 16777216
                    ELSE 0]

ToU32(n) ==
    ToU(n, 4)

ToU64(n) ==
    ToU(n, 8)

\* the value is below 2^24: it can be used as a natural number of the model
Fits(u) ==
    \A i \in 4..Len(u) : u[i] = 0

ToNat(u) ==
    u[1] + 256 * u[2] + 65536 * u[3]

\* conversion std::uint32_t -> std::uint64_t (zero extension)
ZExt(u) ==
    u \o <<0, 0, 0, 0>>

\* conversion std::uint64_t -> std::uint32_t (truncation)
Trunc32(u) ==
    SubSeq(u, 1, 4)

RECURSIVE AddLimbs(_, _, _, _)
AddLimbs(a, b, i, carry) ==
    IF i > Len(a) THEN <<>>
    ELSE LET s == a[i] + b[i] + carry
         IN  <<s % 256>> \o AddLimbs(a, b, i + 1, s \div 256)

\* a + b modulo 2^(8 * Len(a)); two values below 2^24 are added as naturals
AddU(a, b) ==
    IF Fits(a) /\ Fits(b) THEN ToU(ToNat(a) + ToNat(b), Len(a))
    ELSE AddLimbs(a, b, 1, 0)

\* a - 1 modulo 2^(8 * Len(a))
DecU(a) ==
    IF Fits(a) /\ ToNat(a) > 0 THEN ToU(ToNat(a) - 1, Len(a))
    ELSE AddLimbs(a, [i \in 1..Len(a) |-> 255], 1, 0)

\* ~a
NotU(a) ==
    [i \in 1..Len(a) |-> 255 - a[i]]

RECURSIVE AndBits(_, _)
AndBits(x, y) ==
    IF x = 0 \/ y = 0 THEN 0
    ELSE 2 * AndBits(x \div 2, y \div 2) + (x % 2) * (y % 2)

\* a & b
AndU(a, b) ==
    [i \in 1..Len(a) |-> AndBits(a[i], b[i])]

RECURSIVE LessFrom(_, _, _)
LessFrom(a, b, i) ==
    IF i = 0 THEN FALSE
    ELSE IF a[i] # b[i] THEN a[i] < b[i]
    ELSE LessFrom(a, b, i - 1)

\* a < b
LessU(a, b) ==
    IF Fits(a) /\ Fits(b) THEN ToNat(a) < ToNat(b)
    ELSE LessFrom(a, b, Len(a))

\* a > 1
GreaterOne(a) ==
    LessU(ToU(1, Len(a)), a)

-----------------------------------------------------------------------------
(* Binary codec: archive_common.hpp *)

Endianness == {"Little", "Big", "Native"}

Reverse(s) ==
    [i \in 1..Len(s) |-> s[Len(s) + 1 - i]]

\* byteswap: the value whose object representation is the reversed one
byteswap(value) ==
    Reverse(value)

\* the object representation of a value in the memory of the build (memcpy)
ObjectRep(value, nat) ==
    IF nat = "little" THEN value ELSE Reverse(value)

should_swap(endian, nat) ==
    endian # "Native" /\ ((endian = "Big") # (nat = "big"))

\* the bytes write_with_endianness stores at dest
write_with_endianness(value, endian, nat) ==
    ObjectRep(IF should_swap(endian, nat) THEN byteswap(value) ELSE value, nat)

\* a faulty read_with_endianness that never swaps, to validate RoundTrip
read_without_swap(bytes, endian, nat) ==
    ObjectRep(bytes, nat)

\* the value read_with_endianness returns for the bytes at src
read_with_endianness(bytes, endian, nat) ==
    LET value == ObjectRep(bytes, nat)
    IN  IF should_swap(endian, nat) THEN byteswap(value) ELSE value

-----------------------------------------------------------------------------
(* Layout arithmetic shared by ArchiveWriter and ArchiveReader.  A layout   *)
(* row is [size |-> std::uint64_t, align |-> std::uint32_t].                *)

\* (offset + align - 1) & ~(align - 1), applied when align > 1: offset is 64 bits
\* wide, align and ~(align - 1) are 32 bits wide and zero-extended for the &
AlignedOffset(offset, align) ==
    IF GreaterOne(align)
    THEN AndU(DecU(AddU(offset, ZExt(align))), ZExt(NotU(DecU(align))))
    ELSE offset

\* the loop of ArchiveWriter::total_size from row i on
RECURSIVE total_from(_, _, _)
total_from(total, rows, i) ==
    IF i > Len(rows) THEN total
    ELSE total_from(AddU(AlignedOffset(total, rows[i].align), rows[i].size), rows, i + 1)

\* the loop of ArchiveWriter::write_file_data from row i on: the offset each
\* memcpy writes at
RECURSIVE data_offsets(_, _, _)
data_offsets(offset, rows, i) ==
    IF i > Len(rows) THEN <<>>
    ELSE LET at == AlignedOffset(offset, rows[i].align)
         IN  <<at>> \o data_offsets(AddU(at, rows[i].size), rows, i + 1)

\* the memcpy calls of one write_to_memory: the header and table at 0, then
\* every entry's data at its offset
stores_of(head_len, rows) ==
    LET ats == data_offsets(head_len, rows, 1)
    IN  <<[off |-> ToU64(0), len |-> head_len]>>
        \o [i \in 1..Len(rows) |-> [off |-> ats[i], len |-> rows[i].size]]

\* a memcpy stays inside a buffer of total bytes: off + len <= total, no wrap
StoreInside(st, total) ==
    LET last == AddU(st.off, st.len)
    IN  ~LessU(last, st.off) /\ ~LessU(total, last)

\* some memcpy of write_to_memory writes outside the buffer of total bytes
stores_overflow(head_len, rows, total) ==
    LET stores == stores_of(head_len, rows)
    IN  \E k \in 1..Len(stores) : ~StoreInside(stores[k], total)

-----------------------------------------------------------------------------
(* ArchiveWriter: a table entry is [path, data, align], align a uint32      *)

\* the inputs the model draws from
Identifiers == {<<82, 80>>}

Versions == {<<49>>}

Paths == {<<>>, <<97>>, <<98>>}

\* no bytes, and the 13 bytes of "Hello, World!"
Datas == {<<>>, <<72, 101, 108, 108, 111, 44, 32, 87, 111, 114, 108, 100, 33>>}

Alignments == {0, 3}

DefaultAlignments == {1, 4}

\* entry.data.size(): a layout row carries the size in place of the data
data_size(entry) ==
    IF "size" \in DOMAIN entry THEN entry.size ELSE ToU64(Len(entry.data))

RowsOf(files) ==
    [i \in 1..Len(files) |->
        [size |-> data_size(files[i]), align |-> files[i].align]]

\* a faulty files_.contains that finds nothing, to validate AddFileContract
w_contains_never(files, path) ==
    FALSE

w_contains(files, path) ==
    \E i \in 1..Len(files) : files[i].path = path

IndexOf(files, path) ==
    CHOOSE i \in 1..Len(files) : files[i].path = path

RECURSIVE SumPathRows(_, _)
SumPathRows(files, i) ==
    IF i > Len(files) THEN 0
    ELSE 8 + Len(files[i].path) + 8 + 4 + SumPathRows(files, i + 1)

\* a faulty calculate_header_size that leaves out the 8 bytes of the entry
\* count, to validate HeaderFields
calculate_header_size_short(identifier, version, files) ==
    ToU64(4 + (8 + Len(identifier)) + (8 + Len(version)) + SumPathRows(files, 1))

calculate_header_size(identifier, version, files) ==
    ToU64(4 + (8 + Len(identifier)) + (8 + Len(version)) + 8 + SumPathRows(files, 1))

total_size(identifier, version, files) ==
    total_from(calculate_header_size(identifier, version, files), RowsOf(files), 1)

\* the bytes write_header stores, from offset 0 on
write_header(identifier, version, files, endian, nat) ==
    write_with_endianness(Trunc32(calculate_header_size(identifier, version, files)),
                          endian, nat)
    \o write_with_endianness(ToU64(Len(identifier)), endian, nat) \o identifier
    \o write_with_endianness(ToU64(Len(version)), endian, nat) \o version
    \o write_with_endianness(ToU64(Len(files)), endian, nat)

\* the bytes write_file_table stores after the header, rows i..
RECURSIVE write_file_table(_, _, _, _)
write_file_table(files, i, endian, nat) ==
    IF i > Len(files) THEN <<>>
    ELSE write_with_endianness(ToU64(Len(files[i].path)), endian, nat)
         \o files[i].path
         \o write_with_endianness(ToU64(Len(files[i].data)), endian, nat)
         \o write_with_endianness(files[i].align, endian, nat)
         \o write_file_table(files, i + 1, endian, nat)

\* std::memcpy(buffer + off, bytes): the part that lands inside the buffer
Poke(buf, off, bytes) ==
    LET n    == Len(buf)
        kept == IF off + Len(bytes) <= n THEN bytes ELSE SubSeq(bytes, 1, n - off)
    IN  IF off >= n THEN buf
        ELSE SubSeq(buf, 1, off) \o kept \o SubSeq(buf, off + Len(kept) + 1, n)

\* write_file_data: the memcpy of entries i.. at the offsets ats
RECURSIVE write_file_data(_, _, _, _)
write_file_data(buf, files, ats, i) ==
    IF i > Len(files) THEN buf
    ELSE write_file_data(Poke(buf, ToNat(ats[i]), files[i].data), files, ats, i + 1)

\* write_to_memory: the buffer returned, and whether a memcpy left the buffer
write_to_memory(identifier, version, files, endian, nat) ==
    LET total == total_size(identifier, version, files)
        head  == write_header(identifier, version, files, endian, nat)
                 \o write_file_table(files, 1, endian, nat)
        ats   == data_offsets(ToU64(Len(head)), RowsOf(files), 1)
        zeros == [i \in 1..ToNat(total) |-> 0]
    IN  [buffer   |-> write_file_data(Poke(zeros, 0, head), files, ats, 1),
         overflow |-> stores_overflow(ToU64(Len(head)), RowsOf(files), total)]

-----------------------------------------------------------------------------
(* ArchiveWriter operations *)

Range(seq) ==
    {seq[i] : i \in 1..Len(seq)}

\* the iteration orders std::unordered_map may have after an insertion: the
\* order is unspecified and a rehash may change it
OrdersAfterInsert(files, entry) ==
    LET all == Range(files) \cup {entry}
    IN  {s \in [1..(Len(files) + 1) -> all] :
            \A i, j \in 1..(Len(files) + 1) : i # j => s[i] # s[j]}

\* erase keeps the relative order of the elements that stay
RemoveAt(files, k) ==
    [i \in 1..(Len(files) - 1) |-> IF i < k THEN files[i] ELSE files[i + 1]]

\* what the last call of the writer returned or raised; value is a record
WRet(op, status, value) ==
    [op |-> op, status |-> status, value |-> value]

\* add_file(path, data, alignment)
add_file(path, data, alignment) ==
    /\ phase = "writing"
    /\ IF path = <<>> \/ w_contains(w_files, path)
       THEN /\ w_ret' = WRet("add_file", "usage_error", [path |-> path])
            /\ UNCHANGED w_files
       ELSE /\ Len(w_files) < MaxFiles
            /\ LET entry == [path  |-> path,
                             data  |-> data,
                             align |-> ToU32(IF alignment > 0 THEN alignment
                                             ELSE w_default_alignment)]
               IN  \E order \in OrdersAfterInsert(w_files, entry) : w_files' = order
            /\ w_ret' = WRet("add_file", "ok", [path |-> path])
    /\ UNCHANGED <<native, phase, w_identifier, w_version, w_endianness,
                   w_default_alignment, disk, mm, r_is_open, r_header, r_files,
                   r_file_map, r_cfg, r_ret, first_read, lay, held, streams>>

\* remove_file(path)
remove_file(path) ==
    /\ phase = "writing"
    /\ IF w_contains(w_files, path)
       THEN /\ w_files' = RemoveAt(w_files, IndexOf(w_files, path))
            /\ w_ret' = WRet("remove_file", "ok", [found |-> TRUE])
       ELSE /\ w_ret' = WRet("remove_file", "ok", [found |-> FALSE])
            /\ UNCHANGED w_files
    /\ UNCHANGED <<native, phase, w_identifier, w_version, w_endianness,
                   w_default_alignment, disk, mm, r_is_open, r_header, r_files,
                   r_file_map, r_cfg, r_ret, first_read, lay, held, streams>>

\* update_file(path, new_data)
update_file(path, new_data) ==
    /\ phase = "writing"
    /\ IF w_contains(w_files, path)
       THEN /\ w_files' = [w_files EXCEPT ![IndexOf(w_files, path)].data = new_data]
            /\ w_ret' = WRet("update_file", "ok", [found |-> TRUE])
       ELSE /\ w_ret' = WRet("update_file", "ok", [found |-> FALSE])
            /\ UNCHANGED w_files
    /\ UNCHANGED <<native, phase, w_identifier, w_version, w_endianness,
                   w_default_alignment, disk, mm, r_is_open, r_header, r_files,
                   r_file_map, r_cfg, r_ret, first_read, lay, held, streams>>

\* clear()
clear ==
    /\ phase = "writing"
    /\ w_files' = <<>>
    /\ w_ret' = WRet("clear", "ok", [done |-> TRUE])
    /\ UNCHANGED <<native, phase, w_identifier, w_version, w_endianness,
                   w_default_alignment, disk, mm, r_is_open, r_header, r_files,
                   r_file_map, r_cfg, r_ret, first_read, lay, held, streams>>

\* total_size()
call_total_size ==
    /\ phase = "writing"
    /\ w_ret' = WRet("total_size", "ok",
                     [total |-> total_size(w_identifier, w_version, w_files)])
    /\ UNCHANGED <<native, phase, w_identifier, w_version, w_endianness,
                   w_default_alignment, w_files, disk, mm, r_is_open, r_header,
                   r_files, r_file_map, r_cfg, r_ret, first_read, lay, held, streams>>

\* a faulty write_to_memory() that moves the entries out of the table, to
\* validate SerializationFrame
call_write_to_memory_moving ==
    /\ phase = "writing"
    /\ w_ret' = WRet("write_to_memory", "ok",
                     write_to_memory(w_identifier, w_version, w_files,
                                     w_endianness, native))
    /\ w_files' = <<>>
    /\ UNCHANGED <<native, phase, w_identifier, w_version, w_endianness,
                   w_default_alignment, disk, mm, r_is_open, r_header,
                   r_files, r_file_map, r_cfg, r_ret, first_read, lay, held, streams>>

\* write_to_memory()
call_write_to_memory ==
    /\ phase = "writing"
    /\ w_ret' = WRet("write_to_memory", "ok",
                     write_to_memory(w_identifier, w_version, w_files,
                                     w_endianness, native))
    /\ UNCHANGED <<native, phase, w_identifier, w_version, w_endianness,
                   w_default_alignment, w_files, disk, mm, r_is_open, r_header,
                   r_files, r_file_map, r_cfg, r_ret, first_read, lay, held, streams>>

\* write(filepath): the file cannot be opened for writing (IOError), or the
\* bytes of write_to_memory() become the file; the reading side works on
\* the file from then on
write(can_open) ==
    /\ phase = "writing"
    /\ IF can_open
       THEN /\ disk' = write_to_memory(w_identifier, w_version, w_files,
                                       w_endianness, native).buffer
            /\ w_ret' = WRet("write", "ok", [done |-> TRUE])
            /\ phase' = "reading"
       ELSE /\ w_ret' = WRet("write", "io_error", [done |-> FALSE])
            /\ UNCHANGED <<disk, phase>>
    /\ UNCHANGED <<native, w_identifier, w_version, w_endianness,
                   w_default_alignment, w_files, mm, r_is_open, r_header,
                   r_files, r_file_map, r_cfg, r_ret, first_read, lay, held, streams>>

\* std::replace(archive_path.begin(), archive_path.end(), '\\', '/')
replace_backslashes(path) ==
    [k \in 1..Len(path) |-> IF path[k] = 92 THEN 47 ELSE path[k]]

\* add_file_from_disk(filepath, archive_path, alignment) on the table files:
\* the table afterwards, the value returned, and whether add_file threw. file
\* is what the file system holds at filepath
add_file_from_disk_result(files, file, archive_path, alignment, default_alignment) ==
    IF ~file.readable
    THEN [files |-> files, added |-> FALSE, threw |-> FALSE]
    ELSE LET path == IF archive_path = <<>> THEN file.rel ELSE archive_path
         IN  IF path = <<>> \/ w_contains(files, path)
             THEN [files |-> files, added |-> FALSE, threw |-> TRUE]
             ELSE [files |-> Append(files,
                                    [path  |-> path,
                                     data  |-> file.bytes,
                                     align |-> ToU32(IF alignment > 0 THEN alignment
                                                     ELSE default_alignment)]),
                   added |-> TRUE, threw |-> FALSE]

\* the loop of add_files_from_directory from the k-th entry of the listing
\* on: the table afterwards and whether an exception left the loop
RECURSIVE directory_loop(_, _, _, _, _, _)
directory_loop(files, listing, k, prefix, filter, default_alignment) ==
    IF k > Len(listing) THEN [files |-> files, threw |-> FALSE]
    ELSE IF ~listing[k].regular \/ (filter.set /\ listing[k].rel \notin filter.accepts)
    THEN directory_loop(files, listing, k + 1, prefix, filter, default_alignment)
    ELSE LET r == add_file_from_disk_result(
                      files, listing[k],
                      replace_backslashes(prefix \o listing[k].rel), 0,
                      default_alignment)
         IN  IF r.threw THEN [files |-> r.files, threw |-> TRUE]
             ELSE directory_loop(r.files, listing, k + 1, prefix, filter,
                                 default_alignment)

\* add_files_from_directory(dir, prefix, filter); listing is what the
\* recursive iteration of dir yields, in its order
add_files_from_directory(is_directory, listing, prefix, filter) ==
    /\ phase = "writing"
    /\ \E r \in {IF is_directory
                 THEN directory_loop(w_files, listing, 1, prefix, filter,
                                     w_default_alignment)
                 ELSE [files |-> w_files, threw |-> FALSE]} :
          /\ Len(r.files) <= MaxFiles
          /\ IF r.files = w_files THEN UNCHANGED w_files
             ELSE \E order \in OrdersAfterInsert(SubSeq(r.files, 1, Len(r.files) - 1),
                                                 r.files[Len(r.files)]) :
                     w_files' = order
          /\ w_ret' = WRet("add_files_from_directory",
                           IF r.threw THEN "usage_error" ELSE "ok",
                           [path |-> prefix, is_directory |-> is_directory,
                            listing |-> listing, filter |-> filter])
    /\ UNCHANGED <<native, phase, w_identifier, w_version, w_endianness,
                   w_default_alignment, disk, mm, r_is_open, r_header, r_files,
                   r_file_map, r_cfg, r_ret, first_read, lay, held, streams>>

-----------------------------------------------------------------------------
(* MemoryMappedFile (POSIX branch) *)

\* the descriptor ::open returns in the model
SomeFd == 3

ClosedMapping ==
    [file_descriptor |-> -1, mapped_data |-> "nullptr", mapped_size |-> 0,
     content |-> <<>>, os_fd |-> "none"]

\* ::close(file_descriptor_) as the operating system sees it. os_fd tells
\* whether the descriptor the object obtained is open ("open"), is not, as
\* before the first open and after its release ("none"), or was closed a
\* second time after its release ("closed_twice")
os_close(m) ==
    IF m.os_fd = "open" THEN "none" ELSE "closed_twice"

\* MemoryMappedFile::close()
mm_close(m) ==
    [m EXCEPT !.mapped_data = "nullptr", !.content = <<>>,
              !.file_descriptor = -1, !.mapped_size = 0,
              !.os_fd = IF m.file_descriptor # -1 THEN os_close(m) ELSE @]

OpenFailures == {"none", "open", "fstat", "mmap"}

\* MemoryMappedFile::open(filepath): the members it leaves, and whether it threw
\* IOError. failure names the system call that fails; mmap of an empty file
\* fails. After a failing fstat or mmap the descriptor is closed and
\* file_descriptor_ keeps its number
mm_open(m, file, failure) ==
    LET c == mm_close(m)
    IN  IF failure = "open"
        THEN [threw |-> TRUE, m |-> c]
        ELSE IF failure = "fstat"
        THEN [threw |-> TRUE,
              m |-> [c EXCEPT !.file_descriptor = SomeFd, !.os_fd = "none"]]
        ELSE IF failure = "mmap" \/ Len(file) = 0
        THEN [threw |-> TRUE,
              m |-> [c EXCEPT !.file_descriptor = SomeFd, !.os_fd = "none",
                              !.mapped_size = Len(file)]]
        ELSE [threw |-> FALSE,
              m |-> [file_descriptor |-> SomeFd, mapped_data |-> "mapping",
                     mapped_size |-> Len(file), content |-> file,
                     os_fd |-> "open"]]

\* MemoryMappedFile::data()
mm_data(m) ==
    IF m.mapped_data = "mapping" THEN m.content ELSE <<>>

-----------------------------------------------------------------------------
(* ArchiveFile *)

EmptyView ==
    [kind |-> "MappedView", off |-> 0, len |-> 0, bytes |-> <<>>]

\* ArchiveFile::ArchiveFile
NewArchiveFile(path, offset, size, cache_threshold, allow_streaming) ==
    [path               |-> path,
     offset             |-> offset,
     size               |-> size,
     cache_threshold    |-> cache_threshold,
     supports_streaming |-> allow_streaming /\ LessU(ToU64(cache_threshold), size),
     is_loaded          |-> FALSE,
     holder             |-> EmptyView]

\* the range [offset, offset + size) lies inside the mapped bytes
RangeMapped(f, m) ==
    /\ m.mapped_data = "mapping"
    /\ Fits(f.offset) /\ Fits(f.size)
    /\ ToNat(f.offset) + ToNat(f.size) <= Len(m.content)

\* the bytes at archive_data_ + offset_, size_ of them
ArchiveBytes(f, m) ==
    SubSeq(m.content, ToNat(f.offset) + 1, ToNat(f.offset) + ToNat(f.size))

\* a faulty ensure_loaded that caches only below the threshold, to validate
\* CachedAfterFirstData
ensure_loaded_below(f, m) ==
    IF f.is_loaded THEN f
    ELSE IF LessU(f.size, ToU64(f.cache_threshold))
    THEN [f EXCEPT !.is_loaded = TRUE,
                   !.holder = [kind |-> "CachedData", off |-> 0,
                               len |-> ToNat(f.size), bytes |-> ArchiveBytes(f, m)]]
    ELSE [f EXCEPT !.is_loaded = TRUE,
                   !.holder = [kind |-> "MappedView", off |-> ToNat(f.offset),
                               len |-> ToNat(f.size), bytes |-> <<>>]]

\* a faulty ensure_loaded that never takes the stream branch, to validate
\* ResidencyByConfig
ensure_loaded_mapped(f, m) ==
    IF f.is_loaded THEN f
    ELSE IF ~LessU(ToU64(f.cache_threshold), f.size)
    THEN [f EXCEPT !.is_loaded = TRUE,
                   !.holder = [kind |-> "CachedData", off |-> 0,
                               len |-> ToNat(f.size), bytes |-> ArchiveBytes(f, m)]]
    ELSE [f EXCEPT !.is_loaded = TRUE,
                   !.holder = [kind |-> "MappedView", off |-> ToNat(f.offset),
                               len |-> ToNat(f.size), bytes |-> <<>>]]

\* ArchiveFile::ensure_loaded
ensure_loaded(f, m) ==
    IF f.is_loaded THEN f
    ELSE IF ~LessU(ToU64(f.cache_threshold), f.size)
    THEN [f EXCEPT !.is_loaded = TRUE,
                   !.holder = [kind |-> "CachedData", off |-> 0,
                               len |-> ToNat(f.size), bytes |-> ArchiveBytes(f, m)]]
    ELSE IF f.supports_streaming
    THEN [f EXCEPT !.is_loaded = TRUE,
                   !.holder = [kind |-> "StreamData", off |-> 0,
                               len |-> ToNat(f.size), bytes |-> ArchiveBytes(f, m)]]
    ELSE [f EXCEPT !.is_loaded = TRUE,
                   !.holder = [kind |-> "MappedView", off |-> ToNat(f.offset),
                               len |-> ToNat(f.size), bytes |-> <<>>]]

\* a faulty visitor that returns the streamed bytes, to validate DataByResidency
holder_span_streamed(h, m) ==
    IF h.kind = "MappedView" THEN SubSeq(m.content, h.off + 1, h.off + h.len)
    ELSE h.bytes

\* the bytes of the span the visitor of ArchiveFile::data returns
holder_span(h, m) ==
    IF h.kind = "MappedView" THEN SubSeq(m.content, h.off + 1, h.off + h.len)
    ELSE IF h.kind = "CachedData" THEN h.bytes
    ELSE <<>>

\* ArchiveFile::is_cached
is_cached(f) ==
    f.holder.kind = "CachedData"

\* a faulty release_cache that keeps the buffer, to validate ReleaseThenData
release_cache_keep(f) ==
    f

\* a faulty release_cache that unloads every residency, to validate
\* CacheSizeAccounting
release_cache_any(f) ==
    [f EXCEPT !.holder = EmptyView, !.is_loaded = FALSE]

\* ArchiveFile::release_cache
release_cache(f) ==
    IF is_cached(f) THEN [f EXCEPT !.holder = EmptyView, !.is_loaded = FALSE]
    ELSE f

-----------------------------------------------------------------------------
(* ArchiveReader: parsing *)

\* the n bytes at data + pos. Bytes past the end of the mapping are read
\* without a check by parse_file_table; the rest of the last page of a file
\* mapping reads as zero
ReadAt(data, pos, n) ==
    [i \in 1..n |-> IF pos + i <= Len(data) THEN data[pos + i] ELSE 0]

\* pos + length > size, in 64-bit arithmetic
Exceeds(pos, length, size) ==
    IF Fits(length) THEN pos + ToNat(length) > size
    ELSE LessU(ToU64(size), AddU(ToU64(pos), length))

\* pos + length wrapped around 2^64
Wraps(pos, length) ==
    ~Fits(length) /\ LessU(AddU(ToU64(pos), length), ToU64(pos))

EmptyMap ==
    [p \in {} |-> 0]

\* file_map_[path] = index
MapPut(fmap, path, index) ==
    [p \in DOMAIN fmap \cup {path} |-> IF p = path THEN index ELSE fmap[p]]

\* ArchiveReader::parse_header: the header_ it leaves and how it ended
parse_header(data, header, endian, nat) ==
    LET size           == Len(data)
        h1             == [header EXCEPT !.data_offset =
                              read_with_endianness(ReadAt(data, 0, 4), endian, nat)]
        ident_length   == read_with_endianness(ReadAt(data, 4, 8), endian, nat)
        h2             == [h1 EXCEPT !.identifier =
                              SubSeq(data, 13, 12 + ToNat(ident_length))]
        vpos           == 12 + ToNat(ident_length)
        version_length == read_with_endianness(ReadAt(data, vpos, 8), endian, nat)
        h3             == [h2 EXCEPT !.version =
                              SubSeq(data, vpos + 9, vpos + 8 + ToNat(version_length))]
    IN  IF size < 4 THEN [status |-> "format_error", header |-> header]
        ELSE IF 4 + 8 > size THEN [status |-> "format_error", header |-> h1]
        ELSE IF Exceeds(12, ident_length, size)
        THEN [status |-> "format_error", header |-> h1]
        ELSE IF Wraps(12, ident_length)
        THEN [status |-> "length_error", header |-> h1]
        ELSE IF vpos + 8 > size THEN [status |-> "format_error", header |-> h2]
        ELSE IF Exceeds(vpos + 8, version_length, size)
        THEN [status |-> "format_error", header |-> h2]
        ELSE IF Wraps(vpos + 8, version_length)
        THEN [status |-> "length_error", header |-> h2]
        ELSE [status |-> "ok", header |-> h3]

\* a faulty step over a row that leaves the cursor before the size and the
\* alignment, to validate TableLoopBounded
row_end_short(p2) ==
    p2

\* ptr += sizeof(file_size); ptr += sizeof(file_align): the cursor after a
\* row whose path ends at p2
row_end(p2) ==
    p2 + 8 + 4

\* the loop of ArchiveReader::parse_file_table from row i on. env holds the
\* mapped bytes and the configuration, st the cursor ptr, current_offset, the
\* files_ and file_map_ built so far, and whether a byte past the end was read
RECURSIVE parse_rows(_, _, _, _)
parse_rows(env, i, num_files, st) ==
    LET size == Len(env.data)
        Ended(status, oob) ==
            [status |-> status, files |-> st.files, fmap |-> st.fmap, oob |-> oob,
             ptr |-> st.ptr]
        path_length == read_with_endianness(ReadAt(env.data, st.ptr, 8),
                                            env.endian, env.nat)
        p1          == st.ptr + 8
        p2          == p1 + ToNat(path_length)
        file_path   == SubSeq(env.data, p1 + 1, p2)
        file_size   == read_with_endianness(ReadAt(env.data, p2, 8),
                                            env.endian, env.nat)
        p3          == p2 + 8
        align_oob   == p3 + 4 > size
        file_align  == read_with_endianness(ReadAt(env.data, p3, 4),
                                            env.endian, env.nat)
        at          == AlignedOffset(st.off, file_align)
    IN  IF ~LessU(i, num_files) THEN Ended("ok", st.oob)
        ELSE IF st.ptr + 8 > size THEN Ended("format_error", st.oob)
        ELSE IF Exceeds(p1, path_length, size) THEN Ended("format_error", st.oob)
        ELSE IF Wraps(p1, path_length) THEN Ended("length_error", st.oob)
        ELSE IF p2 + 8 > size THEN Ended("format_error", st.oob)
        ELSE IF align_oob /\ env.fault THEN Ended("crash", TRUE)
        ELSE IF LessU(ToU64(size), AddU(at, file_size))
        THEN Ended("format_error", st.oob \/ align_oob)
        ELSE parse_rows(env, AddU(i, ToU64(1)), num_files,
                 [ptr   |-> row_end(p2),
                  off   |-> AddU(at, file_size),
                  files |-> Append(st.files,
                                NewArchiveFile(file_path, at, file_size,
                                               env.cache_threshold,
                                               env.allow_streaming)),
                  fmap  |-> MapPut(st.fmap, file_path, Len(st.files) + 1),
                  oob   |-> st.oob \/ align_oob])

\* ArchiveReader::parse_file_table
parse_file_table(env, header) ==
    LET ptr       == 4 + 8 + Len(header.identifier) + 8 + Len(header.version)
        count_oob == ptr + 8 > Len(env.data)
        num_files == read_with_endianness(ReadAt(env.data, ptr, 8),
                                          env.endian, env.nat)
    IN  IF count_oob /\ env.fault
        THEN [status |-> "crash", files |-> <<>>, fmap |-> EmptyMap, oob |-> TRUE,
              ptr |-> ptr]
        ELSE parse_rows(env, ToU64(0), num_files,
                 [ptr |-> ptr + 8, off |-> ZExt(header.data_offset),
                  files |-> <<>>, fmap |-> EmptyMap, oob |-> count_oob])

-----------------------------------------------------------------------------
(* ArchiveReader operations *)

\* what the last call of the reader or of an entry returned or raised, and
\* whether it read outside the mapping; value is a record
RRet(op, status, value, oob) ==
    [op |-> op, status |-> status, value |-> value, oob |-> oob]

\* what a caller has seen of each entry so far: the bytes of its first data()
\* call, and whether release_cache() was called after that
NoReads(files) ==
    [i \in 1..Len(files) |-> [first |-> <<>>, released |-> FALSE]]

\* a faulty account of close() in which the cached buffers outlive the
\* entries, to validate StreamsSurviveClose
after_destroy_mapped(hs) ==
    [k \in 1..Len(hs) |->
       IF hs[k].kind = "MappedView"
       THEN [hs[k] EXCEPT !.alive = FALSE] ELSE hs[k]]

\* the spans a caller holds after every entry was destroyed and the mapping
\* closed: a span over a cached buffer or into the mapping dangles; the empty
\* span of a streamed entry points to a static vector
after_destroy(hs) ==
    [k \in 1..Len(hs) |->
       IF hs[k].kind \in {"CachedData", "MappedView"}
       THEN [hs[k] EXCEPT !.alive = FALSE] ELSE hs[k]]

\* the views a caller holds after `cached_string = ss.str()` in
\* as_string_view: cached_string is one thread_local string for all entries,
\* and a view into it no longer denotes the characters it was returned for
after_string_assign(hs) ==
    [k \in 1..Len(hs) |->
       IF hs[k].kind = "cached_string"
       THEN [hs[k] EXCEPT !.alive = FALSE] ELSE hs[k]]

\* the spans a caller holds after release_cache() on the entries: the
\* buffer of a cached entry is freed
after_release(hs, files, entries) ==
    [k \in 1..Len(hs) |->
       IF /\ hs[k].kind = "CachedData"
          /\ hs[k].index \in entries
          /\ hs[k].index \in 1..Len(files)
          /\ is_cached(files[hs[k].index])
       THEN [hs[k] EXCEPT !.alive = FALSE] ELSE hs[k]]

\* what the system does during an open: nothing special ("none"), a system
\* call of MemoryMappedFile::open fails ("open", "fstat", "mmap"), or a read
\* past the end of the mapping faults ("fault") instead of reading the zero
\* rest of the last page
OpenOutcomes == {"none", "open", "fstat", "mmap", "fault"}

\* a faulty open that loads every entry when lazy_load is off, to validate
\* NothingLoadedAfterOpen
open_result_eager(m, file, header, outcome, cfg, nat) ==
    LET mo  == mm_open(mm_close(m), file,
                       IF outcome = "fault" THEN "none" ELSE outcome)
        env == [data |-> mm_data(mo.m), endian |-> cfg.file_endianness,
                nat |-> nat, cache_threshold |-> cfg.cache_threshold,
                allow_streaming |-> cfg.allow_streaming,
                fault |-> (outcome = "fault")]
        ph  == parse_header(env.data, header, cfg.file_endianness, nat)
        pt  == parse_file_table(env, ph.header)
    IN  IF mo.threw
        THEN [mm |-> mm_close(mo.m), files |-> <<>>, fmap |-> EmptyMap,
              is_open |-> FALSE, header |-> header, status |-> "io_error",
              oob |-> FALSE]
        ELSE IF ph.status # "ok"
        THEN [mm |-> mo.m, files |-> <<>>, fmap |-> EmptyMap,
              is_open |-> FALSE, header |-> ph.header, status |-> ph.status,
              oob |-> FALSE]
        ELSE [mm |-> mo.m,
              files |-> IF cfg.lazy_load THEN pt.files
                        ELSE [k \in 1..Len(pt.files) |->
                                ensure_loaded(pt.files[k], mo.m)],
              fmap |-> pt.fmap,
              is_open |-> (pt.status = "ok"), header |-> ph.header,
              status |-> pt.status, oob |-> pt.oob]

\* the body of ArchiveReader::open after the configuration is stored: the
\* members it leaves and how it ended. Only IOError is caught, so close()
\* runs on the error path of MemoryMappedFile::open alone
open_result(m, file, header, outcome, cfg, nat) ==
    LET mo  == mm_open(mm_close(m), file,
                       IF outcome = "fault" THEN "none" ELSE outcome)
        env == [data |-> mm_data(mo.m), endian |-> cfg.file_endianness,
                nat |-> nat, cache_threshold |-> cfg.cache_threshold,
                allow_streaming |-> cfg.allow_streaming,
                fault |-> (outcome = "fault")]
        ph  == parse_header(env.data, header, cfg.file_endianness, nat)
        pt  == parse_file_table(env, ph.header)
    IN  IF mo.threw
        THEN [mm |-> mm_close(mo.m), files |-> <<>>, fmap |-> EmptyMap,
              is_open |-> FALSE, header |-> header, status |-> "io_error",
              oob |-> FALSE]
        ELSE IF ph.status # "ok"
        THEN [mm |-> mo.m, files |-> <<>>, fmap |-> EmptyMap,
              is_open |-> FALSE, header |-> ph.header, status |-> ph.status,
              oob |-> FALSE]
        ELSE [mm |-> mo.m, files |-> pt.files, fmap |-> pt.fmap,
              is_open |-> (pt.status = "ok"), header |-> ph.header,
              status |-> pt.status, oob |-> pt.oob]

\* open(filepath, cache_threshold, lazy_load, allow_streaming, mmap_options,
\* file_endianness)
open(outcome, cache_threshold, lazy_load, allow_streaming, file_endianness) ==
    /\ phase = "reading"
    /\ r_cfg' = [cache_threshold |-> cache_threshold, lazy_load |-> lazy_load,
                 allow_streaming |-> allow_streaming,
                 file_endianness |-> file_endianness]
    /\ \E res \in {open_result(mm, disk, r_header, outcome, r_cfg', native)} :
          /\ mm' = res.mm
          /\ r_files' = res.files
          /\ r_file_map' = res.fmap
          /\ r_is_open' = res.is_open
          /\ r_header' = res.header
          /\ r_ret' = RRet("open", res.status, [is_open |-> res.is_open], res.oob)
          /\ phase' = IF res.status = "crash" THEN "crashed" ELSE phase
          /\ first_read' = NoReads(res.files)
    /\ held' = after_destroy(held)
    /\ UNCHANGED <<native, w_identifier, w_version, w_endianness,
                   w_default_alignment, w_files, w_ret, disk, lay, streams>>

\* a faulty close() that keeps the path index, to validate CloseContract
close_keep_index ==
    /\ phase = "reading"
    /\ r_files' = <<>>
    /\ mm' = mm_close(mm)
    /\ r_is_open' = FALSE
    /\ r_ret' = RRet("close", "ok",
                     [is_open |-> FALSE, again |-> r_ret.op = "close"], FALSE)
    /\ first_read' = <<>>
    /\ held' = after_destroy(held)
    /\ UNCHANGED <<native, phase, w_identifier, w_version, w_endianness,
                   w_default_alignment, w_files, w_ret, disk, r_header, r_file_map,
                   r_cfg, lay, streams>>

\* close(); the call record tells whether the call before it was close() too
close ==
    /\ phase = "reading"
    /\ r_files' = <<>>
    /\ r_file_map' = EmptyMap
    /\ mm' = mm_close(mm)
    /\ r_is_open' = FALSE
    /\ r_ret' = RRet("close", "ok",
                     [is_open |-> FALSE, again |-> r_ret.op = "close"], FALSE)
    /\ first_read' = <<>>
    /\ held' = after_destroy(held)
    /\ UNCHANGED <<native, phase, w_identifier, w_version, w_endianness,
                   w_default_alignment, w_files, w_ret, disk, r_header, r_cfg, lay, streams>>

\* a faulty find that returns the first entry for a path the map does not
\* hold, to validate NotFoundContract
file_map_find_first(fmap, path) ==
    IF path \in DOMAIN fmap THEN [found |-> TRUE, index |-> fmap[path]]
    ELSE [found |-> DOMAIN fmap # {}, index |-> 1]

\* file_map_.find(path): whether the iterator differs from end(), and the
\* entry (its index in files_) it points to
file_map_find(fmap, path) ==
    IF path \in DOMAIN fmap THEN [found |-> TRUE, index |-> fmap[path]]
    ELSE [found |-> FALSE, index |-> 0]

\* file_map_.find(path) != file_map_.end()
r_contains(fmap, path) ==
    file_map_find(fmap, path).found

\* get_file(path): the entry (its index in files_), or FileNotFoundException
\* (index 0: no entry)
get_file(path) ==
    /\ phase = "reading"
    /\ r_ret' = LET it == file_map_find(r_file_map, path)
                IN  RRet("get_file", IF it.found THEN "ok" ELSE "not_found",
                         [path |-> path, index |-> it.index], FALSE)
    /\ UNCHANGED <<native, phase, w_identifier, w_version, w_endianness,
                   w_default_alignment, w_files, w_ret, disk, mm, r_is_open,
                   r_header, r_files, r_file_map, r_cfg, first_read, lay, held, streams>>

\* contains(path)
contains(path) ==
    /\ phase = "reading"
    /\ r_ret' = RRet("contains", "ok",
                     [path |-> path, found |-> r_contains(r_file_map, path)], FALSE)
    /\ UNCHANGED <<native, phase, w_identifier, w_version, w_endianness,
                   w_default_alignment, w_files, w_ret, disk, mm, r_is_open,
                   r_header, r_files, r_file_map, r_cfg, first_read, lay, held, streams>>

\* a faulty read_raw that goes through the entry and materializes it, to
\* validate ReadRawFrame
read_raw_through_entry(path) ==
    /\ phase = "reading"
    /\ \E it \in {file_map_find(r_file_map, path)} :
          IF ~it.found
          THEN /\ r_ret' = RRet("read_raw", "not_found",
                                [path |-> path, bytes |-> <<>>], FALSE)
               /\ UNCHANGED r_files
          ELSE /\ r_files' = [r_files EXCEPT
                                ![it.index] = ensure_loaded(r_files[it.index], mm)]
               /\ r_ret' = RRet("read_raw", "ok",
                                [path  |-> path,
                                 bytes |-> ArchiveBytes(r_files[it.index], mm)], FALSE)
    /\ UNCHANGED <<native, phase, w_identifier, w_version, w_endianness,
                   w_default_alignment, w_files, w_ret, disk, mm, r_is_open,
                   r_header, r_file_map, r_cfg, first_read, lay, held, streams>>

\* read_raw(path): the bytes of the span into the mapping, or
\* FileNotFoundException
read_raw(path) ==
    /\ phase = "reading"
    /\ r_ret' = LET it == file_map_find(r_file_map, path)
                IN  IF ~it.found
                    THEN RRet("read_raw", "not_found",
                              [path |-> path, bytes |-> <<>>], FALSE)
                    ELSE IF RangeMapped(r_files[it.index], mm)
                    THEN RRet("read_raw", "ok",
                              [path  |-> path,
                               bytes |-> ArchiveBytes(r_files[it.index], mm)], FALSE)
                    ELSE RRet("read_raw", "undefined",
                              [path |-> path, bytes |-> <<>>], TRUE)
    /\ UNCHANGED <<native, phase, w_identifier, w_version, w_endianness,
                   w_default_alignment, w_files, w_ret, disk, mm, r_is_open,
                   r_header, r_files, r_file_map, r_cfg, first_read, lay, held, streams>>

\* files_[i]->data()
data(i) ==
    /\ phase = "reading"
    /\ i \in 1..Len(r_files)
    /\ IF RangeMapped(r_files[i], mm)
       THEN \E f \in {ensure_loaded(r_files[i], mm)} :
               \E v \in {holder_span(f.holder, mm)} :
                  /\ r_files' = [r_files EXCEPT ![i] = f]
                  /\ r_ret' = RRet("data", "ok", [index |-> i, bytes |-> v], FALSE)
                  /\ first_read' = IF first_read[i].first = <<>>
                                   THEN [first_read EXCEPT ![i].first = <<v>>]
                                   ELSE first_read
       ELSE /\ r_ret' = RRet("data", "undefined", [index |-> i, bytes |-> <<>>], TRUE)
            /\ UNCHANGED <<r_files, first_read>>
    /\ UNCHANGED <<native, phase, w_identifier, w_version, w_endianness,
                   w_default_alignment, w_files, w_ret, disk, mm, r_is_open,
                   r_header, r_file_map, r_cfg, lay, held, streams>>

\* files_[i]->release_cache()
call_release_cache(i) ==
    /\ phase = "reading"
    /\ i \in 1..Len(r_files)
    /\ r_files' = [r_files EXCEPT ![i] = release_cache(r_files[i])]
    /\ r_ret' = RRet("release_cache", "ok", [index |-> i, bytes |-> <<>>], FALSE)
    /\ first_read' = [first_read EXCEPT ![i].released = (first_read[i].first # <<>>)
                                                         \/ first_read[i].released]
    /\ held' = after_release(held, r_files, {i})
    /\ UNCHANGED <<native, phase, w_identifier, w_version, w_endianness,
                   w_default_alignment, w_files, w_ret, disk, mm, r_is_open,
                   r_header, r_file_map, r_cfg, lay, streams>>

\* stream_factory_(): a new string stream filled with the size_ bytes at
\* archive_data_ + offset_, read position 0. shared tells whether the stream
\* object is the one a holder owns
stream_factory(f, m) ==
    [bytes |-> ArchiveBytes(f, m), pos |-> 0, shared |-> FALSE]

\* the stream the visitor of ArchiveFile::open_stream returns: the stream of a
\* StreamData holder itself, or a new string stream filled from the buffer
\* or from the view
holder_stream(h, m) ==
    IF h.kind = "StreamData" THEN [bytes |-> h.bytes, pos |-> h.off, shared |-> TRUE]
    ELSE [bytes |-> holder_span(h, m), pos |-> 0, shared |-> FALSE]

\* a faulty open_stream that loads a streaming entry and hands out the stream
\* of its holder, to validate StreamsIndependent
open_stream_of_holder(f, m) ==
    LET g == ensure_loaded(f, m)
    IN  [f |-> g, stream |-> holder_stream(g.holder, m)]

\* ArchiveFile::open_stream: the entry afterwards and the stream returned
open_stream_result(f, m) ==
    IF f.supports_streaming
    THEN [f |-> f, stream |-> stream_factory(f, m)]
    ELSE LET g == ensure_loaded(f, m)
         IN  [f |-> g, stream |-> holder_stream(g.holder, m)]

\* ss << stream->rdbuf(): the bytes of the stream from its position to its end
stream_rest(st) ==
    SubSeq(st.bytes, st.pos + 1, Len(st.bytes))

\* ArchiveFile::as_string_view: the entry afterwards and the characters of
\* the view returned
as_string_view_result(f, m) ==
    LET g    == ensure_loaded(f, m)
        span == holder_span(g.holder, m)
    IN  IF span = <<>> /\ g.holder.kind = "StreamData"
        THEN [f |-> g, bytes |-> stream_rest(open_stream_result(g, m).stream)]
        ELSE [f |-> g, bytes |-> span]

Min(a, b) ==
    IF a < b THEN a ELSE b

Zeros(n) ==
    [k \in 1..n |-> 0]

\* stream->seekg(offset); stream->read(chunk.data(), size): the bytes read
\* into the zero-filled chunk of size bytes
stream_read_at(st, offset, size) ==
    LET got == SubSeq(st.bytes, offset + 1, Min(offset + size, Len(st.bytes)))
    IN  got \o Zeros(size - Len(got))

\* a faulty read_chunk that does not clip the length to the entry, to
\* validate ReadChunkContract
read_chunk_unclipped(f, m, offset, size) ==
    LET g == ensure_loaded(f, m)
    IN  [f |-> g, bytes |-> stream_read_at(stream_factory(f, m), offset, size)]

\* ArchiveFile::read_chunk on an entry below 2^24 bytes: the entry afterwards
\* and the vector returned
read_chunk_result(f, m, offset, size) ==
    IF offset >= ToNat(f.size) THEN [f |-> f, bytes |-> <<>>]
    ELSE LET n == Min(size, ToNat(f.size) - offset)
         IN  IF is_cached(f) \/ ~f.supports_streaming
             THEN LET g    == ensure_loaded(f, m)
                      span == holder_span(g.holder, m)
                      copy == IF offset < Len(span)
                              THEN SubSeq(span, offset + 1,
                                          offset + Min(n, Len(span) - offset))
                              ELSE <<>>
                  IN  [f |-> g, bytes |-> copy \o Zeros(n - Len(copy))]
             ELSE LET r == open_stream_result(f, m)
                  IN  [f |-> r.f, bytes |-> stream_read_at(r.stream, offset, n)]

\* files_[i]->as_string_view()
as_string_view(i) ==
    /\ phase = "reading"
    /\ i \in 1..Len(r_files)
    /\ RangeMapped(r_files[i], mm)
    /\ \E res \in {as_string_view_result(r_files[i], mm)} :
          /\ r_files' = [r_files EXCEPT ![i] = res.f]
          /\ r_ret' = RRet("as_string_view", "ok",
                           [index |-> i, bytes |-> res.bytes], FALSE)
          /\ held' = IF res.f.holder.kind = "StreamData"
                     THEN after_string_assign(held) ELSE held
    /\ UNCHANGED <<native, phase, w_identifier, w_version, w_endianness,
                   w_default_alignment, w_files, w_ret, disk, mm, r_is_open,
                   r_header, r_file_map, r_cfg, first_read, lay, streams>>

\* files_[i]->open_stream(); the caller drops the stream at once
open_stream(i) ==
    /\ phase = "reading"
    /\ i \in 1..Len(r_files)
    /\ RangeMapped(r_files[i], mm)
    /\ \E res \in {open_stream_result(r_files[i], mm)} :
          /\ r_files' = [r_files EXCEPT ![i] = res.f]
          /\ r_ret' = RRet("open_stream", "ok",
                           [index |-> i, bytes |-> res.stream.bytes,
                            pos |-> res.stream.pos, shared |-> res.stream.shared],
                           FALSE)
    /\ UNCHANGED <<native, phase, w_identifier, w_version, w_endianness,
                   w_default_alignment, w_files, w_ret, disk, mm, r_is_open,
                   r_header, r_file_map, r_cfg, first_read, lay, held, streams>>

\* files_[i]->read_chunk(offset, size)
read_chunk(i, offset, size) ==
    /\ phase = "reading"
    /\ i \in 1..Len(r_files)
    /\ RangeMapped(r_files[i], mm)
    /\ \E res \in {read_chunk_result(r_files[i], mm, offset, size)} :
          /\ r_files' = [r_files EXCEPT ![i] = res.f]
          /\ r_ret' = RRet("read_chunk", "ok",
                           [index |-> i, offset |-> offset, size |-> size,
                            bytes |-> res.bytes], FALSE)
    /\ UNCHANGED <<native, phase, w_identifier, w_version, w_endianness,
                   w_default_alignment, w_files, w_ret, disk, mm, r_is_open,
                   r_header, r_file_map, r_cfg, first_read, lay, held, streams>>

\* release_all_caches()
release_all_caches ==
    /\ phase = "reading"
    /\ r_files' = [i \in 1..Len(r_files) |-> release_cache(r_files[i])]
    /\ r_ret' = RRet("release_all_caches", "ok", [done |-> TRUE], FALSE)
    /\ first_read' = [i \in 1..Len(r_files) |->
                        [first_read[i] EXCEPT !.released = (first_read[i].first # <<>>)
                                                           \/ first_read[i].released]]
    /\ held' = after_release(held, r_files, 1..Len(r_files))
    /\ UNCHANGED <<native, phase, w_identifier, w_version, w_endianness,
                   w_default_alignment, w_files, w_ret, disk, mm, r_is_open,
                   r_header, r_file_map, r_cfg, lay, streams>>

\* the caller stores the span the last data() call returned
keep_span ==
    /\ phase = "reading"
    /\ r_ret.op = "data"
    /\ r_ret.status = "ok"
    /\ Len(held) + Len(streams) < MaxKept
    /\ held' = Append(held, [index |-> r_ret.value.index,
                             kind  |-> r_files[r_ret.value.index].holder.kind,
                             bytes |-> r_ret.value.bytes,
                             alive |-> TRUE])
    /\ r_ret' = RRet("keep_span", "ok", [index |-> r_ret.value.index], FALSE)
    /\ UNCHANGED <<native, phase, w_identifier, w_version, w_endianness,
                   w_default_alignment, w_files, w_ret, disk, mm, r_is_open,
                   r_header, r_files, r_file_map, r_cfg, first_read, lay, streams>>

\* the caller stores the view the last as_string_view() call returned: a
\* view over the span of data(), or into cached_string for a streamed entry
keep_view ==
    /\ phase = "reading"
    /\ r_ret.op = "as_string_view"
    /\ r_ret.status = "ok"
    /\ Len(held) + Len(streams) < MaxKept
    /\ held' = Append(held,
                      [index |-> r_ret.value.index,
                       kind  |-> IF r_files[r_ret.value.index].holder.kind = "StreamData"
                                 THEN "cached_string"
                                 ELSE r_files[r_ret.value.index].holder.kind,
                       bytes |-> r_ret.value.bytes,
                       alive |-> TRUE])
    /\ r_ret' = RRet("keep_view", "ok", [index |-> r_ret.value.index], FALSE)
    /\ UNCHANGED <<native, phase, w_identifier, w_version, w_endianness,
                   w_default_alignment, w_files, w_ret, disk, mm, r_is_open,
                   r_header, r_files, r_file_map, r_cfg, first_read, lay, streams>>

\* what reading a span can do: the storage is alive ("valid"); or it was
\* freed or unmapped, and the read finds the old bytes ("stale"), other
\* bytes ("garbage"), or faults ("fault")
SpanOutcomes == {"valid", "stale", "garbage", "fault"}

\* the caller reads the bytes of the k-th span it holds
read_span(k, outcome) ==
    /\ phase = "reading"
    /\ k \in 1..Len(held)
    /\ (outcome = "valid") = (held[k].alive \/ held[k].bytes = <<>>)
    /\ r_ret' = RRet("read_span",
                     IF outcome = "fault" THEN "crash"
                     ELSE IF outcome = "garbage" THEN "undefined" ELSE "ok",
                     [span  |-> k,
                      bytes |-> IF outcome \in {"valid", "stale"} THEN held[k].bytes
                                ELSE IF outcome = "garbage"
                                THEN Zeros(Len(held[k].bytes))
                                ELSE <<>>],
                     outcome # "valid")
    /\ phase' = IF outcome = "fault" THEN "crashed" ELSE phase
    /\ UNCHANGED <<native, w_identifier, w_version, w_endianness,
                   w_default_alignment, w_files, w_ret, disk, mm, r_is_open,
                   r_header, r_files, r_file_map, r_cfg, first_read, lay, held,
                   streams>>

\* the caller stores the shared_ptr the last open_stream() call returned
keep_stream ==
    /\ phase = "reading"
    /\ r_ret.op = "open_stream"
    /\ r_ret.status = "ok"
    /\ Len(held) + Len(streams) < MaxKept
    /\ streams' = Append(streams, [index  |-> r_ret.value.index,
                                   bytes  |-> r_ret.value.bytes,
                                   pos    |-> r_ret.value.pos,
                                   shared |-> r_ret.value.shared])
    /\ r_ret' = RRet("keep_stream", "ok", [index |-> r_ret.value.index], FALSE)
    /\ UNCHANGED <<native, phase, w_identifier, w_version, w_endianness,
                   w_default_alignment, w_files, w_ret, disk, mm, r_is_open,
                   r_header, r_files, r_file_map, r_cfg, first_read, lay, held>>

\* the streams after the read position of the k-th moved to pos: a stream
\* object that a holder owns is one object for all who hold it
stream_moved(sts, k, pos) ==
    [j \in 1..Len(sts) |->
       IF j = k \/ (sts[k].shared /\ sts[j].shared /\ sts[j].index = sts[k].index)
       THEN [sts[j] EXCEPT !.pos = pos] ELSE sts[j]]

\* streams[k]->read(buffer, n)
stream_read(k, n) ==
    /\ phase = "reading"
    /\ k \in 1..Len(streams)
    /\ \E got \in {SubSeq(streams[k].bytes, streams[k].pos + 1,
                          Min(streams[k].pos + n, Len(streams[k].bytes)))} :
          /\ streams' = stream_moved(streams, k, streams[k].pos + Len(got))
          /\ r_ret' = RRet("stream_read", "ok",
                           [stream |-> k, bytes |-> got,
                            pos |-> streams[k].pos + Len(got)], FALSE)
    /\ UNCHANGED <<native, phase, w_identifier, w_version, w_endianness,
                   w_default_alignment, w_files, w_ret, disk, mm, r_is_open,
                   r_header, r_files, r_file_map, r_cfg, first_read, lay, held>>

\* streams[k]->seekg(pos)
stream_seek(k, pos) ==
    /\ phase = "reading"
    /\ k \in 1..Len(streams)
    /\ pos <= Len(streams[k].bytes)
    /\ streams' = stream_moved(streams, k, pos)
    /\ r_ret' = RRet("stream_seek", "ok",
                     [stream |-> k, bytes |-> <<>>, pos |-> pos], FALSE)
    /\ UNCHANGED <<native, phase, w_identifier, w_version, w_endianness,
                   w_default_alignment, w_files, w_ret, disk, mm, r_is_open,
                   r_header, r_files, r_file_map, r_cfg, first_read, lay, held>>

\* file_count()
file_count ==
    Len(r_files)

\* the loop of ArchiveReader::cache_size from entry i on
RECURSIVE cache_size_from(_, _, _)
cache_size_from(total, files, i) ==
    IF i > Len(files) THEN total
    ELSE cache_size_from(IF is_cached(files[i]) THEN AddU(total, files[i].size)
                         ELSE total,
                         files, i + 1)

\* cache_size()
cache_size ==
    cache_size_from(ToU64(0), r_files, 1)

\* the environment cuts the archive file to its first n bytes while no
\* reader maps it
Truncate(n) ==
    /\ phase = "reading"
    /\ mm.mapped_data = "nullptr"
    /\ n < Len(disk)
    /\ disk' = SubSeq(disk, 1, n)
    /\ UNCHANGED <<native, phase, w_identifier, w_version, w_endianness,
                   w_default_alignment, w_files, w_ret, mm, r_is_open,
                   r_header, r_files, r_file_map, r_cfg, r_ret, first_read, lay, held, streams>>

-----------------------------------------------------------------------------
(* Specification Spec: an ArchiveWriter fills its table and writes the      *)
(* archive file; an ArchiveReader then opens and closes that file.          *)

LayIdle ==
    [pc |-> "idle", rows |-> <<>>, total |-> ToU64(0), ats |-> <<>>]

DefaultConfig ==
    [cache_threshold |-> 1024 * 1024, lazy_load |-> TRUE,
     allow_streaming |-> TRUE, file_endianness |-> "Big"]

InitReader ==
    /\ mm = ClosedMapping
    /\ r_is_open = FALSE
    /\ r_header = [data_offset |-> ToU32(0), identifier |-> <<>>, version |-> <<>>]
    /\ r_files = <<>>
    /\ r_file_map = EmptyMap
    /\ r_cfg = DefaultConfig
    /\ r_ret = RRet("ArchiveReader", "ok", [is_open |-> FALSE], FALSE)
    /\ first_read = <<>>

Init ==
    /\ native \in {"little", "big"}
    /\ phase = "writing"
    /\ w_identifier \in Identifiers
    /\ w_version \in Versions
    /\ w_endianness \in Endianness
    /\ w_default_alignment \in DefaultAlignments
    /\ w_files = <<>>
    /\ w_ret = WRet("ArchiveWriter", "ok", [done |-> TRUE])
    /\ disk = <<>>
    /\ InitReader
    /\ lay = LayIdle
    /\ held = <<>>
    /\ streams = <<>>

Next ==
    \/ \E path \in Paths, bytes \in Datas, alignment \in Alignments :
          add_file(path, bytes, alignment)
    \/ \E path \in Paths : remove_file(path)
    \/ \E path \in Paths, bytes \in Datas : update_file(path, bytes)
    \/ clear
    \/ call_total_size
    \/ call_write_to_memory
    \/ \E can_open \in BOOLEAN : write(can_open)
    \/ \E failure \in OpenFailures, file_endianness \in Endianness :
          open(failure, DefaultConfig.cache_threshold, DefaultConfig.lazy_load,
               DefaultConfig.allow_streaming, file_endianness)
    \/ close

Spec ==
    Init /\ [][Next]_vars

-----------------------------------------------------------------------------
(* Specification SpecEntry: a reader opens an archive written before, with  *)
(* any cache threshold and streaming setting, and the entries are read,     *)
(* released and looked up.                                                  *)

Entry(path, bytes, alignment) ==
    [path |-> path, data |-> bytes, align |-> ToU32(alignment)]

\* entry sizes 0, 1 and 3 around the thresholds 0 and 1
EntryDatas == {<<>>, <<72>>, <<72, 105, 33>>}

Thresholds == {0, 1}

EntryTables ==
    {<<Entry(<<97>>, a, 1)>> : a \in EntryDatas}
    \cup {<<Entry(<<97>>, a, 1), Entry(<<98>>, b, 4)>> : a, b \in EntryDatas}

\* the state after ArchiveWriter::write of the table files
Written(files) ==
    /\ phase = "reading"
    /\ w_files = files
    /\ w_ret = WRet("write", "ok", [done |-> TRUE])
    /\ disk = write_to_memory(w_identifier, w_version, files, w_endianness,
                              native).buffer

InitEntry ==
    /\ native = "little"
    /\ w_identifier \in Identifiers
    /\ w_version \in Versions
    /\ w_endianness = "Big"
    /\ w_default_alignment = 1
    /\ \E files \in EntryTables : Written(files)
    /\ InitReader
    /\ lay = LayIdle
    /\ held = <<>>
    /\ streams = <<>>

NextEntry ==
    \/ \E cache_threshold \in Thresholds, allow_streaming \in BOOLEAN :
          open("none", cache_threshold, DefaultConfig.lazy_load, allow_streaming,
               w_endianness)
    \/ close
    \/ \E i \in 1..MaxFiles : data(i)
    \/ \E i \in 1..MaxFiles : call_release_cache(i)
    \/ \E path \in Paths : get_file(path)
    \/ \E path \in Paths : contains(path)
    \/ \E path \in Paths : read_raw(path)

SpecEntry ==
    InitEntry /\ [][NextEntry]_vars

-----------------------------------------------------------------------------
(* Specification SpecAccess: a reader opens an archive with entries of 0, 1 *)
(* and 3 bytes under every cache threshold, lazy_load and streaming         *)
(* setting, and every access operation of the entries is called.            *)

AccessTables ==
    {<<Entry(<<97>>, <<>>, 1)>>,
     <<Entry(<<97>>, <<72>>, 1), Entry(<<98>>, <<72, 105, 33>>, 4)>>}

\* read_chunk offsets below, at and past the entry sizes, and lengths that
\* fit, end at the end of the entry, or pass it
ChunkOffsets == {0, 1, 3}

ChunkLengths == {0, 1, 4}

\* cache thresholds below, at and between the entry sizes, and one that lets
\* every entry be cached
AccessThresholds == {0, 1, 3}

InitAccess ==
    /\ native = "little"
    /\ w_identifier \in Identifiers
    /\ w_version \in Versions
    /\ w_endianness = "Big"
    /\ w_default_alignment = 1
    /\ \E files \in AccessTables : Written(files)
    /\ InitReader
    /\ lay = LayIdle
    /\ held = <<>>
    /\ streams = <<>>

NextAccess ==
    \/ \E cache_threshold \in AccessThresholds, lazy_load, allow_streaming \in BOOLEAN :
          open("none", cache_threshold, lazy_load, allow_streaming, w_endianness)
    \/ close
    \/ \E i \in 1..MaxFiles : data(i)
    \/ \E i \in 1..MaxFiles : call_release_cache(i)
    \/ \E i \in 1..MaxFiles : as_string_view(i)
    \/ \E i \in 1..MaxFiles : open_stream(i)
    \/ \E i \in 1..MaxFiles, offset \in ChunkOffsets, size \in ChunkLengths :
          read_chunk(i, offset, size)
    \/ release_all_caches

SpecAccess ==
    InitAccess /\ [][NextAccess]_vars

-----------------------------------------------------------------------------
(* Specification SpecHold: a caller keeps spans of data() and streams of    *)
(* open_stream() of the entries and uses them while the reader releases     *)
(* caches, closes and reopens the archive.                                  *)

\* one entry of 3 bytes
HoldTables ==
    {<<Entry(<<98>>, <<72, 105, 33>>, 4)>>}

\* cache_threshold and allow_streaming that make the entry cached (3),
\* streamed (1, streaming allowed) or mapped (1, streaming disabled)
HoldConfigs ==
    {<<3, TRUE>>, <<1, TRUE>>, <<1, FALSE>>}

InitHold ==
    /\ native = "little"
    /\ w_identifier \in Identifiers
    /\ w_version \in Versions
    /\ w_endianness = "Big"
    /\ w_default_alignment = 1
    /\ \E files \in HoldTables : Written(files)
    /\ InitReader
    /\ lay = LayIdle
    /\ held = <<>>
    /\ streams = <<>>

NextHold ==
    \/ \E cfg \in HoldConfigs :
          open("none", cfg[1], DefaultConfig.lazy_load, cfg[2], w_endianness)
    \/ close
    \/ \E i \in 1..MaxFiles : data(i)
    \/ \E i \in 1..MaxFiles : call_release_cache(i)
    \/ \E i \in 1..MaxFiles : open_stream(i)
    \/ keep_span
    \/ keep_stream
    \/ \E k \in 1..MaxKept, outcome \in SpanOutcomes : read_span(k, outcome)
    \/ \E k \in 1..MaxKept, n \in 1..2 : stream_read(k, n)
    \/ \E k \in 1..MaxKept, pos \in {0, 2} : stream_seek(k, pos)

SpecHold ==
    InitHold /\ [][NextHold]_vars

-----------------------------------------------------------------------------
(* Specification SpecText: a caller keeps the text views of                 *)
(* as_string_view() of two entries and reads them later.                    *)

NextText ==
    \/ \E cache_threshold \in AccessThresholds, allow_streaming \in BOOLEAN :
          open("none", cache_threshold, DefaultConfig.lazy_load, allow_streaming,
               w_endianness)
    \/ \E i \in 1..MaxFiles : as_string_view(i)
    \/ keep_view
    \/ \E k \in 1..MaxKept, outcome \in SpanOutcomes : read_span(k, outcome)

SpecText ==
    InitAccess /\ [][NextText]_vars

-----------------------------------------------------------------------------
(* Specification SpecDir: an ArchiveWriter is filled by add_file and by     *)
(* add_files_from_directory from directories that hold regular files that   *)
(* can and cannot be read, and subdirectories.                              *)

\* what the iteration of a directory yields for the names "a" and "b": a
\* regular file that can be read, one that cannot, or a subdirectory
DirEntries ==
    {[rel |-> n, regular |-> k[1], readable |-> k[2], bytes |-> <<72>>] :
       n \in {<<97>>, <<98>>},
       k \in {<<TRUE, TRUE>>, <<TRUE, FALSE>>, <<FALSE, FALSE>>}}

\* listings of at most two entries with different names, in any order
Listings ==
    {<<>>} \cup {<<e>> : e \in DirEntries}
    \cup {p \in {<<e, f>> : e, f \in DirEntries} : p[1].rel # p[2].rel}

\* no prefix, and "d/"
Prefixes == {<<>>, <<100, 47>>}

\* no filter, and a filter that accepts "b" only
Filters ==
    {[set |-> FALSE, accepts |-> {}], [set |-> TRUE, accepts |-> {<<98>>}]}

InitDir ==
    /\ native = "little"
    /\ phase = "writing"
    /\ w_identifier \in Identifiers
    /\ w_version \in Versions
    /\ w_endianness = "Big"
    /\ w_default_alignment = 1
    /\ w_files = <<>>
    /\ w_ret = WRet("ArchiveWriter", "ok", [done |-> TRUE])
    /\ disk = <<>>
    /\ InitReader
    /\ lay = LayIdle
    /\ held = <<>>
    /\ streams = <<>>

NextDir ==
    \/ \E path \in Paths : add_file(path, <<>>, 0)
    \/ \E path \in Paths : remove_file(path)
    \/ \E listing \in Listings, prefix \in Prefixes, filter \in Filters :
          add_files_from_directory(TRUE, listing, prefix, filter)
    \/ \E prefix \in Prefixes, filter \in Filters :
          add_files_from_directory(FALSE, <<>>, prefix, filter)

SpecDir ==
    InitDir /\ [][NextDir]_vars

-----------------------------------------------------------------------------
(* Specification SpecTrunc: the archive file is cut short before a reader   *)
(* opens it.                                                                *)

TruncTables ==
    {<<>>,
     <<Entry(<<97>>, <<72>>, 1)>>,
     <<Entry(<<97>>, <<72>>, 1), Entry(<<98>>, <<72, 105, 33>>, 4)>>}

InitTrunc ==
    /\ native = "little"
    /\ w_identifier \in Identifiers
    /\ w_version \in Versions
    /\ w_endianness \in {"Little", "Big"}
    /\ w_default_alignment = 1
    /\ \E files \in TruncTables : Written(files)
    /\ InitReader
    /\ lay = LayIdle
    /\ held = <<>>
    /\ streams = <<>>

NextTrunc ==
    \/ \E n \in 0..(Len(disk) - 1) : Truncate(n)
    \/ \E outcome \in OpenOutcomes :
          open(outcome, DefaultConfig.cache_threshold, DefaultConfig.lazy_load,
               DefaultConfig.allow_streaming, w_endianness)
    \/ close
    \/ \E path \in Paths : contains(path)

SpecTrunc ==
    InitTrunc /\ [][NextTrunc]_vars

-----------------------------------------------------------------------------
(* Specification SpecMap: a MemoryMappedFile used on its own on the archive *)
(* file: opened (any system call of open may fail), read and closed.        *)

\* MemoryMappedFile::is_open()
mm_is_open(m) ==
    m.mapped_data # "nullptr"

\* MemoryMappedFile::size(), which is also the size of the view of data()
mm_size(m) ==
    m.mapped_size

\* mmap_file.open(filepath)
mm_call_open(failure) ==
    /\ phase = "reading"
    /\ \E res \in {mm_open(mm, disk, failure)} :
          /\ mm' = res.m
          /\ r_ret' = RRet("mm_open", IF res.threw THEN "io_error" ELSE "ok",
                           [is_open |-> mm_is_open(res.m), size |-> mm_size(res.m),
                            bytes |-> mm_data(res.m)], FALSE)
    /\ UNCHANGED <<native, phase, w_identifier, w_version, w_endianness,
                   w_default_alignment, w_files, w_ret, disk, r_is_open,
                   r_header, r_files, r_file_map, r_cfg, first_read, lay, held,
                   streams>>

\* mmap_file.close()
mm_call_close ==
    /\ phase = "reading"
    /\ mm' = mm_close(mm)
    /\ r_ret' = RRet("mm_close", "ok",
                     [is_open |-> mm_is_open(mm'), size |-> mm_size(mm'),
                      bytes |-> mm_data(mm')], FALSE)
    /\ UNCHANGED <<native, phase, w_identifier, w_version, w_endianness,
                   w_default_alignment, w_files, w_ret, disk, r_is_open,
                   r_header, r_files, r_file_map, r_cfg, first_read, lay, held,
                   streams>>

\* mmap_file.data(): the view { mapped_data_, mapped_size_ }
mm_call_data ==
    /\ phase = "reading"
    /\ r_ret' = RRet("mm_data", "ok",
                     [is_open |-> mm_is_open(mm), size |-> mm_size(mm),
                      bytes |-> mm_data(mm)], FALSE)
    /\ UNCHANGED <<native, phase, w_identifier, w_version, w_endianness,
                   w_default_alignment, w_files, w_ret, disk, mm, r_is_open,
                   r_header, r_files, r_file_map, r_cfg, first_read, lay, held,
                   streams>>

NextMap ==
    \/ \E n \in 0..(Len(disk) - 1) : Truncate(n)
    \/ \E failure \in OpenFailures : mm_call_open(failure)
    \/ mm_call_close
    \/ mm_call_data

SpecMap ==
    InitTrunc /\ [][NextMap]_vars

-----------------------------------------------------------------------------
(* Specification SpecForged: a reader opens archive files that no writer    *)
(* produced: the header and the table declare lengths, sizes, a data offset *)
(* and an entry count of any 64-bit value.  The integers are little-endian. *)

\* 2^64 - 1
UINT64_MAX ==
    [i \in 1..8 |-> 255]

\* a table row as parse_file_table reads it: the declared path length, the
\* path bytes that follow it, the declared size and the alignment
ForgedRow(path_length, path, size, align) ==
    [path_length |-> path_length, path |-> path, size |-> size,
     align |-> ToU32(align)]

\* rows of the paths a and b: well-formed ones of 3 and 0 bytes, a size of
\* 2^64 - 1, a size of 100 past the end, a path length of 2^64 - 1 and a path
\* length of 100 past the end
ForgedRows ==
    {ForgedRow(ToU64(1), <<97>>, ToU64(3), 1),
     ForgedRow(ToU64(1), <<98>>, ToU64(3), 4),
     ForgedRow(ToU64(1), <<97>>, ToU64(0), 1),
     ForgedRow(ToU64(1), <<98>>, UINT64_MAX, 1),
     ForgedRow(ToU64(1), <<97>>, ToU64(100), 1),
     ForgedRow(UINT64_MAX, <<97>>, ToU64(3), 1),
     ForgedRow(ToU64(100), <<98>>, ToU64(3), 1)}

ForgedTables ==
    {<<>>} \cup {<<r>> : r \in ForgedRows} \cup {<<r, s>> : r, s \in ForgedRows}

\* the bytes after the table: 8 bytes of entry data, or 20 zero bytes, which
\* read as one more row (empty path, size 0, alignment 0), or nothing
ForgedTails ==
    {<<1, 2, 3, 4, 5, 6, 7, 8>>, [i \in 1..20 |-> 0], <<>>}

RECURSIVE ForgedTableBytes(_, _)
ForgedTableBytes(rows, i) ==
    IF i > Len(rows) THEN <<>>
    ELSE write_with_endianness(rows[i].path_length, "Little", "little")
         \o rows[i].path
         \o write_with_endianness(rows[i].size, "Little", "little")
         \o write_with_endianness(rows[i].align, "Little", "little")
         \o ForgedTableBytes(rows, i + 1)

\* the bytes of the archive file a: header fields, identifier RP, version 1,
\* table rows and tail, without the last a.cut bytes
Forge(a) ==
    LET table == ForgedTableBytes(a.rows, 1)
        bytes == write_with_endianness(a.data_offset, "Little", "little")
                 \o write_with_endianness(a.ident_length, "Little", "little")
                 \o <<82, 80>>
                 \o write_with_endianness(a.version_length, "Little", "little")
                 \o <<49>>
                 \o write_with_endianness(a.num_files, "Little", "little")
                 \o table \o a.tail
    IN  SubSeq(bytes, 1, Len(bytes) - a.cut)

\* the length of header and table of an archive with the rows
ForgedHeaderSize(rows) ==
    4 + (8 + 2) + (8 + 1) + 8 + Len(ForgedTableBytes(rows, 1))

\* the archive files of the model: (1) well-formed lengths with a data offset
\* of the header size, 0 or 2^32 - 1; (2) an identifier or version length of
\* 2^64 - 1 or of 200; (3) an entry count of 3 or 2^64 - 1, above the rows;
\* (4) no bytes after the table, whole or cut inside the last alignment field
ForgedArchives ==
    {[data_offset |-> IF o = "header" THEN ToU32(ForgedHeaderSize(rows))
                      ELSE IF o = "zero" THEN ToU32(0) ELSE <<255, 255, 255, 255>>,
      ident_length |-> ToU64(2), version_length |-> ToU64(1),
      num_files |-> ToU64(Len(rows)), rows |-> rows,
      tail |-> <<1, 2, 3, 4, 5, 6, 7, 8>>, cut |-> 0] :
        o \in {"header", "zero", "max"}, rows \in ForgedTables}
    \cup
    {[data_offset |-> ToU32(ForgedHeaderSize(rows)), ident_length |-> lens[1],
      version_length |-> lens[2], num_files |-> ToU64(Len(rows)), rows |-> rows,
      tail |-> <<1, 2, 3, 4, 5, 6, 7, 8>>, cut |-> 0] :
        lens \in {<<UINT64_MAX, ToU64(1)>>, <<ToU64(200), ToU64(1)>>,
                  <<ToU64(2), UINT64_MAX>>, <<ToU64(2), ToU64(200)>>},
        rows \in {t \in ForgedTables : Len(t) <= 1}}
    \cup
    {[data_offset |-> ToU32(ForgedHeaderSize(rows)), ident_length |-> ToU64(2),
      version_length |-> ToU64(1), num_files |-> n, rows |-> rows,
      tail |-> tail, cut |-> 0] :
        n \in {ToU64(3), UINT64_MAX},
        tail \in ForgedTails \ {<<>>},
        rows \in ForgedTables}
    \cup
    {[data_offset |-> ToU32(ForgedHeaderSize(rows)), ident_length |-> ToU64(2),
      version_length |-> ToU64(1), num_files |-> ToU64(Len(rows)), rows |-> rows,
      tail |-> <<>>, cut |-> cut] :
        cut \in {0, 2},
        rows \in ForgedTables}

InitForged ==
    /\ native = "little"
    /\ phase = "reading"
    /\ w_identifier = <<82, 80>>
    /\ w_version = <<49>>
    /\ w_endianness = "Little"
    /\ w_default_alignment = 1
    /\ w_files = <<>>
    /\ w_ret = WRet("ArchiveWriter", "ok", [done |-> TRUE])
    /\ \E a \in ForgedArchives : disk = Forge(a)
    /\ InitReader
    /\ lay = LayIdle
    /\ held = <<>>
    /\ streams = <<>>

NextForged ==
    \/ \E outcome \in {"none", "fault"} :
          open(outcome, DefaultConfig.cache_threshold, DefaultConfig.lazy_load,
               DefaultConfig.allow_streaming, "Little")
    \/ close
    \/ \E path \in Paths : get_file(path)
    \/ \E path \in Paths : contains(path)

SpecForged ==
    InitForged /\ [][NextForged]_vars

-----------------------------------------------------------------------------
(* Specification SpecLayout: the layout arithmetic of the writer on tables  *)
(* whose entries reach 4 GiB.  Entry bytes are opaque to the layout, so a   *)
(* row keeps the size of its data in place of the data: [path, size, align] *)

\* entry sizes 0, 13, 2^32 - 1 and 2^32
LaySizes ==
    {ToU64(0), ToU64(13), <<255, 255, 255, 255, 0, 0, 0, 0>>,
     <<0, 0, 0, 0, 1, 0, 0, 0>>}

\* alignments 1, 3, 16 and 2^31
LayAligns ==
    {ToU32(1), ToU32(3), ToU32(16), <<0, 0, 0, 128>>}

\* add_file on the layout table: the row goes to the end of the iteration order
lay_add_file(size, align) ==
    /\ phase = "layout"
    /\ lay.pc = "table"
    /\ Len(lay.rows) < MaxRows
    /\ lay' = [lay EXCEPT !.rows = Append(lay.rows,
                              [path  |-> <<97 + Len(lay.rows)>>,
                               size  |-> size,
                               align |-> align])]
    /\ UNCHANGED <<native, phase, w_identifier, w_version, w_endianness,
                   w_default_alignment, w_files, w_ret, disk, mm, r_is_open,
                   r_header, r_files, r_file_map, r_cfg, r_ret, first_read,
                   held, streams>>

\* total_size() on the layout table
lay_total_size ==
    /\ phase = "layout"
    /\ lay.pc = "table"
    /\ lay' = [lay EXCEPT !.pc = "sized",
                          !.total = total_size(w_identifier, w_version, lay.rows)]
    /\ UNCHANGED <<native, phase, w_identifier, w_version, w_endianness,
                   w_default_alignment, w_files, w_ret, disk, mm, r_is_open,
                   r_header, r_files, r_file_map, r_cfg, r_ret, first_read,
                   held, streams>>

\* write_to_memory() on the layout table: the size of the buffer it allocates
\* and the offset of every memcpy of write_file_data
lay_write_to_memory ==
    /\ phase = "layout"
    /\ lay.pc \in {"table", "sized"}
    /\ lay' = [lay EXCEPT
                 !.pc = "written",
                 !.total = total_size(w_identifier, w_version, lay.rows),
                 !.ats = data_offsets(
                             calculate_header_size(w_identifier, w_version, lay.rows),
                             lay.rows, 1)]
    /\ UNCHANGED <<native, phase, w_identifier, w_version, w_endianness,
                   w_default_alignment, w_files, w_ret, disk, mm, r_is_open,
                   r_header, r_files, r_file_map, r_cfg, r_ret, first_read,
                   held, streams>>

InitLayout ==
    /\ native = "little"
    /\ phase = "layout"
    /\ w_identifier \in Identifiers
    /\ w_version \in Versions
    /\ w_endianness = "Big"
    /\ w_default_alignment = 1
    /\ w_files = <<>>
    /\ w_ret = WRet("ArchiveWriter", "ok", [done |-> TRUE])
    /\ disk = <<>>
    /\ InitReader
    /\ lay = [pc |-> "table", rows |-> <<>>, total |-> ToU64(0), ats |-> <<>>]
    /\ held = <<>>
    /\ streams = <<>>

NextLayout ==
    \/ \E size \in LaySizes, align \in LayAligns : lay_add_file(size, align)
    \/ lay_total_size
    \/ lay_write_to_memory

SpecLayout ==
    InitLayout /\ [][NextLayout]_vars

-----------------------------------------------------------------------------
(* Properties of Spec *)

\* C1: round trip. When a reader has opened the written archive with the
\* byte order the writer used and no system call failed, open succeeded, the
\* identifier and the version are the writer's, file_count is the number of
\* entries of the writer's table, and every path of the table names an entry
\* whose size() is the length of the added bytes and whose archive bytes at
\* [offset, offset + size) are the added bytes.
RoundTrip ==
    (/\ phase = "reading"
     /\ r_ret.op = "open"
     /\ r_ret.status # "io_error"
     /\ should_swap(r_cfg.file_endianness, native) = should_swap(w_endianness, native))
    => /\ r_ret.status = "ok"
       /\ r_is_open
       /\ r_header.identifier = w_identifier
       /\ r_header.version = w_version
       /\ Len(r_files) = Len(w_files)
       /\ \A k \in 1..Len(w_files) :
             /\ w_files[k].path \in DOMAIN r_file_map
             /\ LET f == r_files[r_file_map[w_files[k].path]]
                IN  /\ f.path = w_files[k].path
                    /\ f.size = ToU64(Len(w_files[k].data))
                    /\ ToNat(f.offset) + ToNat(f.size) <= Len(disk)
                    /\ SubSeq(disk, ToNat(f.offset) + 1, ToNat(f.offset) + ToNat(f.size))
                       = w_files[k].data
                    /\ ArchiveBytes(f, mm) = w_files[k].data

\* a reader has opened an archive of two entries, the second one not empty,
\* whose integers were byte-swapped by the writer
RoundTripWitness ==
    /\ phase = "reading"
    /\ r_ret.op = "open"
    /\ r_is_open
    /\ should_swap(w_endianness, native)
    /\ should_swap(r_cfg.file_endianness, native)
    /\ Len(w_files) = 2
    /\ Len(r_files) = 2
    /\ w_files[2].data # <<>>
    /\ w_files[1].data # <<>>
    /\ w_files[2].align = ToU32(4)

\* C8: add_file(p, ...) raises a usage error exactly when p is empty or p is
\* in the table, and then leaves the table as it was; otherwise it succeeds
\* and the table gains exactly the entry (p, bytes, alignment or the default
\* alignment). remove_file(p) leaves p out of the table, so that add_file(p)
\* succeeds after it.
AddFileContract ==
    [][\A path \in Paths :
          /\ \A bytes \in Datas, alignment \in Alignments :
                (w_ret'.op = "add_file" /\ add_file(path, bytes, alignment)) =>
                   IF path = <<>> \/ \E i \in 1..Len(w_files) : w_files[i].path = path
                   THEN /\ w_ret'.status = "usage_error"
                        /\ w_files' = w_files
                   ELSE /\ w_ret'.status = "ok"
                        /\ Len(w_files') = Len(w_files) + 1
                        /\ Range(w_files') = Range(w_files) \cup
                              {[path  |-> path,
                                data  |-> bytes,
                                align |-> ToU32(IF alignment > 0 THEN alignment
                                                ELSE w_default_alignment)]}
          /\ (w_ret'.op = "remove_file" /\ remove_file(path)) =>
                /\ ~\E i \in 1..Len(w_files') : w_files'[i].path = path
                /\ \A e \in Range(w_files) : e.path # path => e \in Range(w_files')
      ]_vars

\* add_file of a path of the table has raised the usage error, and the table
\* still holds that path with its bytes
AddFileWitness ==
    /\ w_ret.op = "add_file"
    /\ w_ret.status = "usage_error"
    /\ w_ret.value.path # <<>>
    /\ \E i \in 1..Len(w_files) : w_files[i].path = w_ret.value.path

\* C12: close() raises nothing and leaves the reader with is_open() false,
\* file_count() 0, an empty path index and no mapping; on a reader whose last
\* call was close(), or that was never opened, it changes nothing.
CloseContract ==
    [][r_ret'.op = "close"
       => /\ r_ret'.status = "ok"
          /\ ~r_is_open'
          /\ file_count' = 0
          /\ r_file_map' = EmptyMap
          /\ mm'.mapped_data = "nullptr"
          /\ mm_data(mm') = <<>>
          /\ r_ret.op \in {"close", "ArchiveReader"}
             => UNCHANGED <<readerVars, disk>>
      ]_vars

\* close() has returned a second time in a row on a reader that had opened
\* the archive
CloseAgainWitness ==
    /\ r_ret.op = "close"
    /\ r_ret.value.again
    /\ r_header.identifier = w_identifier
    /\ ~r_is_open

-----------------------------------------------------------------------------
(* Properties of SpecEntry *)

CachedAfterFirstData ==
    (/\ r_ret.op = "data"
     /\ r_ret.status = "ok"
     /\ ~LessU(ToU64(r_cfg.cache_threshold), r_files[r_ret.value.index].size))
    => LET f == r_files[r_ret.value.index]
       IN  /\ is_cached(f)
           /\ r_ret.value.bytes
              = SubSeq(disk, ToNat(f.offset) + 1, ToNat(f.offset) + ToNat(f.size))
           /\ \E k \in 1..Len(w_files) :
                 w_files[k].path = f.path /\ w_files[k].data = r_ret.value.bytes

\* the first data() of an entry whose size is the threshold, 1, has returned
CachedAfterFirstDataWitness ==
    /\ r_ret.op = "data"
    /\ r_ret.status = "ok"
    /\ r_cfg.cache_threshold = 1
    /\ r_files[r_ret.value.index].size = ToU64(1)
    /\ ~first_read[r_ret.value.index].released
    /\ is_cached(r_files[r_ret.value.index])

\* C6: every data() returns the bytes the first data() of the entry returned,
\* also after release_cache(); is_cached() is false right after
\* release_cache() and true after data() on an entry with size <=
\* cache_threshold.
ReleaseThenData ==
    /\ (r_ret.op = "data" /\ r_ret.status = "ok")
       => /\ first_read[r_ret.value.index].first = <<r_ret.value.bytes>>
          /\ ~LessU(ToU64(r_cfg.cache_threshold), r_files[r_ret.value.index].size)
             => is_cached(r_files[r_ret.value.index])
    /\ r_ret.op = "release_cache"
       => ~is_cached(r_files[r_ret.value.index])

\* data() has returned for a small entry that was read, then released: the
\* entry is cached again
ReleaseThenDataWitness ==
    /\ r_ret.op = "data"
    /\ r_ret.status = "ok"
    /\ first_read[r_ret.value.index].released
    /\ r_files[r_ret.value.index].size = ToU64(1)
    /\ is_cached(r_files[r_ret.value.index])

\* C9: on an open archive that has no entry of the path, get_file and
\* read_raw raise the not-found error, contains returns false and does not
\* raise, and none of them changes the reader.
NotFoundContract ==
    [][\A path \in Paths :
          (/\ r_is_open
           /\ ~\E i \in 1..Len(r_files) : r_files[i].path = path)
          => /\ (r_ret'.op = "get_file" /\ get_file(path))
                => /\ r_ret'.status = "not_found"
                   /\ UNCHANGED <<readerVars, first_read, disk>>
             /\ (r_ret'.op = "read_raw" /\ read_raw(path))
                => /\ r_ret'.status = "not_found"
                   /\ UNCHANGED <<readerVars, first_read, disk>>
             /\ (r_ret'.op = "contains" /\ contains(path))
                => /\ r_ret'.status = "ok"
                   /\ r_ret'.value.found = FALSE
                   /\ UNCHANGED <<readerVars, first_read, disk>>
      ]_vars

\* read_raw of a path the open archive does not hold has raised not-found
NotFoundWitness ==
    /\ r_is_open
    /\ Len(r_files) = 1
    /\ r_ret.op = "read_raw"
    /\ r_ret.status = "not_found"
    /\ r_ret.value.path = <<98>>

\* C11: read_raw of a path of the open archive returns the bytes of the
\* archive file at the entry's offset, size of them (the bytes the writer
\* stored for the path), in every residency of the entry, and it changes no
\* entry: is_cached of each entry and cache_size are what they were.
ReadRawFrame ==
    [][(r_ret'.op = "read_raw" /\ r_ret'.status # "not_found")
       => /\ r_ret'.status = "ok"
          /\ \E i \in 1..Len(r_files) :
                /\ r_files[i].path = r_ret'.value.path
                /\ r_ret'.value.bytes
                     = SubSeq(disk, ToNat(r_files[i].offset) + 1,
                              ToNat(r_files[i].offset) + ToNat(r_files[i].size))
          /\ \E k \in 1..Len(w_files) :
                /\ w_files[k].path = r_ret'.value.path
                /\ w_files[k].data = r_ret'.value.bytes
          /\ r_files' = r_files
          /\ \A i \in 1..Len(r_files) : is_cached(r_files'[i]) = is_cached(r_files[i])
          /\ cache_size' = cache_size
      ]_vars

\* read_raw has returned the three bytes of an entry in stream residency
\* while the other entry is cached
ReadRawWitness ==
    /\ r_ret.op = "read_raw"
    /\ r_ret.status = "ok"
    /\ Len(r_ret.value.bytes) = 3
    /\ \E i, j \in 1..Len(r_files) :
          /\ r_files[i].path = r_ret.value.path
          /\ r_files[i].is_loaded
          /\ r_files[i].holder.kind = "StreamData"
          /\ is_cached(r_files[j])
          /\ cache_size = ToU64(1)

-----------------------------------------------------------------------------
(* Properties of SpecTrunc *)

\* C2: when the archive file is shorter than the archive the writer produced,
\* an open during which no system call fails ends with the format error and
\* reads no byte at or past the end of the file.
TruncatedOpenFails ==
    [][\A outcome \in {"none", "fault"} :
          (/\ r_ret'.op = "open"
           /\ LessU(ToU64(Len(disk)), total_size(w_identifier, w_version, w_files))
           /\ open(outcome, DefaultConfig.cache_threshold, DefaultConfig.lazy_load,
                   DefaultConfig.allow_streaming, w_endianness))
          => /\ r_ret'.status = "format_error"
             /\ ~r_ret'.oob
      ]_vars

\* C3: after an open that raised, a format error or an I/O error, the reader
\* is closed: is_open() is false, file_count() is 0, contains is false for
\* every path and the file mapping is released.
FailedOpenLeavesClosed ==
    (r_ret.op = "open" /\ r_ret.status \in {"format_error", "length_error", "io_error"})
    => /\ ~r_is_open
       /\ file_count = 0
       /\ \A path \in Paths : ~r_contains(r_file_map, path)
       /\ mm.mapped_data = "nullptr"
       /\ mm.file_descriptor = -1

-----------------------------------------------------------------------------
(* Properties of SpecLayout *)

\* C7: in a written layout, every entry whose alignment is a power of two
\* above 1 starts at the smallest multiple of its alignment that is >= the
\* end of the previous entry's data (the data offset for the first entry).
AlignedToSmallestMultiple ==
    lay.pc = "written"
    => \A i \in 1..Len(lay.rows) :
          LET IsZeroU(u) == \A k \in 1..Len(u) : u[k] = 0
              align == lay.rows[i].align
              prev  == IF i = 1
                       THEN calculate_header_size(w_identifier, w_version, lay.rows)
                       ELSE AddU(lay.ats[i - 1], lay.rows[i - 1].size)
          IN  (GreaterOne(align) /\ IsZeroU(AndU(align, DecU(align))))
              => /\ IsZeroU(AndU(lay.ats[i], ZExt(DecU(align))))
                 /\ ~LessU(lay.ats[i], prev)
                 /\ LessU(lay.ats[i], AddU(prev, ZExt(align)))

\* C10: in a written layout, the size of the buffer, total_size(), is the
\* header and table size plus, entry after entry, a padding >= 0 and the
\* entry size, and no memcpy of the serialization leaves the buffer.
TotalSizeCoversLayout ==
    lay.pc = "written"
    => LET head == calculate_header_size(w_identifier, w_version, lay.rows)
           n    == Len(lay.rows)
           End(i) == IF i = 0 THEN head ELSE AddU(lay.ats[i], lay.rows[i].size)
       IN  /\ \A i \in 1..n : ~LessU(lay.ats[i], End(i - 1))
           /\ lay.total = End(n)
           /\ ~stores_overflow(head, lay.rows, lay.total)

-----------------------------------------------------------------------------
(* Properties of SpecMap *)

\* C13: whenever the MemoryMappedFile is not open, the view of data() has
\* size 0; and close() on a file that close() has just closed changes nothing.
DataEmptyWhenNotOpen ==
    /\ (r_ret.op = "mm_data" /\ ~r_ret.value.is_open) => r_ret.value.size = 0
    /\ (r_ret.op = "mm_close") => mm_close(mm) = mm

-----------------------------------------------------------------------------
(* Properties of SpecAccess *)

\* C16: after every call on an open archive each entry is unloaded or in the
\* residency its size and the reader's cache_threshold and allow_streaming
\* determine (CachedData iff size <= cache_threshold, else StreamData iff
\* streaming is allowed, else MappedView), and after data() or
\* as_string_view() the entry called is in that residency.
ResidencyByConfig ==
    [][\A i \in 1..Len(r_files') :
          LET f        == r_files'[i]
              expected == IF ToNat(f.size) <= r_cfg'.cache_threshold THEN "CachedData"
                          ELSE IF r_cfg'.allow_streaming THEN "StreamData"
                          ELSE "MappedView"
              now      == IF f.is_loaded THEN f.holder.kind ELSE "unloaded"
          IN  /\ now \in {"unloaded", expected}
              /\ (/\ r_ret'.op \in {"data", "as_string_view"}
                  /\ r_ret'.value.index = i)
                 => now = expected
      ]_vars

\* open_stream has returned on a 3-byte entry of an archive opened without
\* streaming, which is now a mapped view, while the 1-byte entry is cached
ResidencyWitness ==
    /\ r_ret.op = "open_stream"
    /\ r_ret.value.index = 2
    /\ ~r_cfg.allow_streaming
    /\ r_files[2].is_loaded
    /\ r_files[2].holder.kind = "MappedView"
    /\ r_files[1].is_loaded
    /\ r_files[1].holder.kind = "CachedData"


\* C17: right after a successful open, with lazy_load on or off, no entry is
\* loaded, is_cached() is false for every entry and cache_size() is 0; and
\* this stays so over every call that is not a data access to an entry.
NothingLoadedAfterOpen ==
    [][/\ (r_ret'.op = "open" /\ r_ret'.status = "ok")
          => /\ r_is_open'
             /\ \A i \in 1..Len(r_files') :
                   ~r_files'[i].is_loaded /\ ~is_cached(r_files'[i])
             /\ cache_size' = ToU64(0)
       /\ (/\ \A i \in 1..Len(r_files) : ~r_files[i].is_loaded
           /\ r_ret'.op \notin {"data", "as_string_view", "open_stream", "read_chunk"})
          => /\ \A i \in 1..Len(r_files') :
                   ~r_files'[i].is_loaded /\ ~is_cached(r_files'[i])
             /\ cache_size' = ToU64(0)
      ]_vars

\* an archive of two entries has been opened with lazy_load off, a threshold
\* that lets the first entry be cached, and nothing is loaded
NothingLoadedWitness ==
    /\ r_ret.op = "open"
    /\ r_ret.status = "ok"
    /\ ~r_cfg.lazy_load
    /\ r_cfg.cache_threshold = 1
    /\ Len(r_files) = 2
    /\ \A i \in 1..2 : ~r_files[i].is_loaded
    /\ cache_size = ToU64(0)


\* the sum of the natural numbers of a sequence
RECURSIVE NatSum(_)
NatSum(s) ==
    IF s = <<>> THEN 0 ELSE Head(s) + NatSum(Tail(s))

\* C18: after every call on an open reader, cache_size() is the sum of size()
\* over the entries whose is_cached() is true; release_all_caches() leaves
\* no entry cached and cache_size() 0, and leaves every entry that was not
\* cached (unloaded, mapped view, stream) as it was.
CacheSizeAccounting ==
    [][/\ r_is_open'
          => cache_size'
               = ToU64(NatSum([i \in 1..Len(r_files') |->
                                 IF r_files'[i].is_loaded
                                    /\ r_files'[i].holder.kind = "CachedData"
                                 THEN ToNat(r_files'[i].size) ELSE 0]))
       /\ r_ret'.op = "release_all_caches"
          => /\ \A i \in 1..Len(r_files') : ~is_cached(r_files'[i])
             /\ cache_size' = ToU64(0)
             /\ Len(r_files') = Len(r_files)
             /\ \A i \in 1..Len(r_files) :
                   ~is_cached(r_files[i]) => r_files'[i] = r_files[i]
      ]_vars

\* release_all_caches has returned on an archive whose first entry had been
\* read into the cache and whose second entry stays in stream residency
ReleaseAllWitness ==
    /\ r_ret.op = "release_all_caches"
    /\ Len(r_files) = 2
    /\ first_read[1].first # <<>>
    /\ first_read[1].released
    /\ ~r_files[1].is_loaded
    /\ r_files[2].is_loaded
    /\ r_files[2].holder.kind = "StreamData"


\* C19: read_chunk(offset, length) on an entry in any residency returns no
\* byte when offset >= size(), and otherwise the min(length, size() - offset)
\* bytes of the entry (the bytes the writer stored) from offset on.
ReadChunkContract ==
    [][r_ret'.op = "read_chunk"
       => LET v     == r_ret'.value
              bytes == w_files[v.index].data
              count == IF v.size < Len(bytes) - v.offset THEN v.size
                       ELSE Len(bytes) - v.offset
          IN  /\ r_ret'.status = "ok"
              /\ w_files[v.index].path = r_files[v.index].path
              /\ v.offset >= Len(bytes) => v.bytes = <<>>
              /\ v.offset < Len(bytes)
                 => /\ Len(v.bytes) = count
                    /\ \A k \in 1..count : v.bytes[k] = bytes[v.offset + k]
      ]_vars

\* read_chunk(1, 4) has returned the last two bytes of the 3-byte entry while
\* the entry is in stream residency
ReadChunkWitness ==
    /\ r_ret.op = "read_chunk"
    /\ r_ret.value.index = 2
    /\ r_ret.value.offset = 1
    /\ r_ret.value.size = 4
    /\ r_ret.value.bytes = <<105, 33>>
    /\ r_files[2].is_loaded
    /\ r_files[2].holder.kind = "StreamData"

-----------------------------------------------------------------------------
(* Properties of SpecHold *)

\* C20: open_stream() on an entry in any residency returns a stream object
\* of its own (not the one a holder owns), at position 0, holding the bytes
\* of the entry; reading or seeking one stream leaves the position of every
\* other stream as it was, a read returns the bytes of the entry from the
\* position of that stream, and no call changes the content of a stream.
StreamsIndependent ==
    [][/\ r_ret'.op = "open_stream"
          => /\ r_ret'.status = "ok"
             /\ r_ret'.value.pos = 0
             /\ ~r_ret'.value.shared
             /\ r_ret'.value.bytes = w_files[r_ret'.value.index].data
             /\ streams' = streams
       /\ r_ret'.op \in {"stream_read", "stream_seek"}
          => /\ Len(streams') = Len(streams)
             /\ \A j \in 1..Len(streams) :
                   j # r_ret'.value.stream => streams'[j] = streams[j]
       /\ r_ret'.op = "stream_read"
          => LET st == streams[r_ret'.value.stream]
             IN  /\ \A k \in 1..Len(r_ret'.value.bytes) :
                       r_ret'.value.bytes[k] = w_files[st.index].data[st.pos + k]
                 /\ r_ret'.value.pos = st.pos + Len(r_ret'.value.bytes)
       /\ Len(streams') >= Len(streams)
       /\ \A j \in 1..Len(streams) : streams'[j].bytes = streams[j].bytes
      ]_vars

\* two streams of the entry, which is in stream residency, are held; a read
\* of two bytes on the second has returned and the first is still at 0
StreamsWitness ==
    /\ r_ret.op = "stream_read"
    /\ r_ret.value.stream = 2
    /\ r_ret.value.bytes = <<72, 105>>
    /\ Len(streams) = 2
    /\ streams[1].index = streams[2].index
    /\ streams[1].pos = 0
    /\ streams[2].pos = 2
    /\ r_is_open
    /\ r_files[1].is_loaded
    /\ r_files[1].holder.kind = "StreamData"


\* C14: close() leaves every span over a cached buffer and every stream the
\* caller obtained before it valid and with the same bytes, and a read of
\* such a span after close() returns the bytes it had.
CachedBytesSurviveClose ==
    [][/\ r_ret'.op = "close"
          => /\ streams' = streams
             /\ Len(held') = Len(held)
             /\ \A k \in 1..Len(held) :
                   (held[k].kind = "CachedData" /\ held[k].alive)
                   => held'[k].alive /\ held'[k].bytes = held[k].bytes
       /\ (r_ret.op = "close" /\ r_ret'.op = "read_span"
           /\ held[r_ret'.value.span].kind = "CachedData")
          => /\ r_ret'.status = "ok"
             /\ r_ret'.value.bytes = held[r_ret'.value.span].bytes
      ]_vars


\* C14, amended: close() leaves every stream the caller obtained before it
\* as it was, and a read of such a stream after close() returns the bytes of
\* the entry from the position of the stream; every span over a cached
\* buffer or into the mapping dangles after close(), because close()
\* destroys the entries with their buffers and closes the mapping.
StreamsSurviveClose ==
    [][/\ r_ret'.op = "close"
          => /\ streams' = streams
             /\ Len(held') = Len(held)
             /\ \A k \in 1..Len(held) :
                   held'[k].alive = (held[k].alive /\ held[k].kind = "StreamData")
       /\ (r_ret'.op = "stream_read" /\ ~r_is_open)
          => LET st == streams[r_ret'.value.stream]
             IN  /\ r_ret'.status = "ok"
                 /\ Len(r_ret'.value.bytes) > 0 \/ st.pos = Len(st.bytes)
                 /\ \A k \in 1..Len(r_ret'.value.bytes) :
                       r_ret'.value.bytes[k] = w_files[st.index].data[st.pos + k]
      ]_vars

\* after close(), a stream obtained before it has been read and returned the
\* first two bytes of the entry, and the span over the cached buffer that the
\* caller holds dangles
StreamsSurviveWitness ==
    /\ ~r_is_open
    /\ r_ret.op = "stream_read"
    /\ r_ret.value.bytes = <<72, 105>>
    /\ Len(held) = 1
    /\ held[1].kind = "CachedData"
    /\ held[1].bytes = <<72, 105, 33>>
    /\ ~held[1].alive

-----------------------------------------------------------------------------
(* Properties of SpecDir *)

\* C15: add_files_from_directory raises nothing, and afterwards the table
\* holds, under prefix + relative path, every regular file of the listing
\* that passes the filter and can be read.
DirectorySkipsBadFile ==
    [][w_ret'.op = "add_files_from_directory"
       => LET v == w_ret'.value
          IN  /\ w_ret'.status = "ok"
              /\ \A k \in 1..Len(v.listing) :
                    (/\ v.listing[k].regular
                     /\ v.listing[k].readable
                     /\ v.filter.set => v.listing[k].rel \in v.filter.accepts)
                    => \E i \in 1..Len(w_files') :
                          w_files'[i].path = v.path \o v.listing[k].rel
      ]_vars

-----------------------------------------------------------------------------
(* Properties of Spec: the bytes of the header and of the table *)

\* the cursor after n table rows that start at pos in the buffer: each row is
\* an 8-byte path length, the path, an 8-byte size and a 4-byte alignment
RECURSIVE RowsEnd(_, _, _, _, _)
RowsEnd(buffer, pos, n, endian, nat) ==
    IF n = 0 THEN pos
    ELSE RowsEnd(buffer,
                 pos + 8 + ToNat(read_with_endianness(ReadAt(buffer, pos, 8), endian, nat))
                     + 8 + 4,
                 n - 1, endian, nat)

\* C21: in the buffer write_to_memory returns, the u32 data_offset field is
\* 4 + 8+|identifier| + 8+|version| + 8 + the sum over the table of
\* (8+|path| + 8 + 4), the entry_count field is the number of entries of the
\* table, and the entry_count rows that follow the header end exactly at
\* data_offset.
HeaderFields ==
    w_ret.op = "write_to_memory"
    => LET buffer      == w_ret.value.buffer
           data_offset == read_with_endianness(ReadAt(buffer, 0, 4), w_endianness, native)
           count_at    == 4 + 8 + Len(w_identifier) + 8 + Len(w_version)
           entry_count == read_with_endianness(ReadAt(buffer, count_at, 8),
                                               w_endianness, native)
       IN  /\ Fits(data_offset)
           /\ ToNat(data_offset) = count_at + 8 + SumPathRows(w_files, 1)
           /\ ToNat(data_offset) <= Len(buffer)
           /\ entry_count = ToU64(Len(w_files))
           /\ RowsEnd(buffer, count_at + 8, Len(w_files), w_endianness, native)
              = ToNat(data_offset)

\* write_to_memory has returned the archive of a table of two entries, each
\* with a path of one byte, stored with byte-swapped integers
HeaderFieldsWitness ==
    /\ w_ret.op = "write_to_memory"
    /\ Len(w_files) = 2
    /\ should_swap(w_endianness, native)
    /\ w_files[1].data # <<>>
    /\ Len(w_ret.value.buffer) > 4 + 8 + Len(w_identifier) + 8 + Len(w_version) + 8 + 42

\* C24: total_size(), write_to_memory() and write() leave the identifier, the
\* version, the byte order, the default alignment and the table (paths, bytes,
\* alignments, order) as they were, and a write() that follows a
\* write_to_memory() with no call in between stores the very bytes that
\* write_to_memory() returned.
SerializationFrame ==
    [][w_ret'.op \in {"total_size", "write_to_memory", "write"}
       => /\ UNCHANGED writerVars
          /\ (w_ret.op = "write_to_memory" /\ w_ret'.op = "write"
                  /\ w_ret'.status = "ok")
             => disk' = w_ret.value.buffer
      ]_vars

\* write() has stored the archive of a table of two entries, one of them
\* with bytes, and the table still holds both
SerializationWitness ==
    /\ w_ret.op = "write"
    /\ w_ret.status = "ok"
    /\ Len(w_files) = 2
    /\ \E k \in 1..2 : w_files[k].data # <<>>
    /\ Len(disk) > 60

-----------------------------------------------------------------------------
(* Properties of SpecForged *)

\* C22: every entry the reader holds after an open that returned lies in the
\* archive: offset + size does not exceed 2^64 - 1 and is at most the length
\* of the archive file.
AcceptedEntriesInside ==
    (r_ret.op = "open" /\ r_ret.status = "ok")
    => \A k \in 1..Len(r_files) :
          /\ ~LessU(AddU(r_files[k].offset, r_files[k].size), r_files[k].offset)
          /\ ~LessU(ToU64(Len(disk)), AddU(r_files[k].offset, r_files[k].size))

\* C23: an open of a file whose identifier length, version length or first
\* path length declares more bytes than the file holds after the length field
\* (a length of 2^64 - 1 included) raises a format error and reads no byte
\* outside the file.
DeclaredLengthsChecked ==
    LET size       == Len(disk)
        TooLong(pos, length) == ~Fits(length) \/ pos + ToNat(length) > size
        LengthAt(pos) == read_with_endianness(ReadAt(disk, pos, 8), "Little", native)
        vpos       == 12 + ToNat(LengthAt(4))
        cpos       == vpos + 8 + ToNat(LengthAt(vpos))
        Rejected   == r_ret.status = "format_error" /\ ~r_ret.oob
    IN  (r_ret.op = "open" /\ r_ret.status # "crash" /\ size >= 12)
        => IF TooLong(12, LengthAt(4)) THEN Rejected
           ELSE IF vpos + 8 > size THEN Rejected
           ELSE IF TooLong(vpos + 8, LengthAt(vpos)) THEN Rejected
           ELSE IF cpos + 16 > size \/ LengthAt(cpos) = ToU64(0) THEN TRUE
           ELSE TooLong(cpos + 16, LengthAt(cpos + 8)) => Rejected

\* C29: after an open that returned, also of a table with two rows of one
\* path, get_file(e.path()) finds, for every entry e of files(), the entry e
\* itself, and file_count() is the number of paths for which contains() is
\* true.
IndexAgreesWithList ==
    (r_ret.op = "open" /\ r_ret.status = "ok")
    => /\ \A k \in 1..Len(r_files) :
             file_map_find(r_file_map, r_files[k].path) = [found |-> TRUE, index |-> k]
       /\ file_count = Cardinality({p \in Paths : r_contains(r_file_map, p)})

-----------------------------------------------------------------------------
(* Properties of SpecMap: the descriptor *)

\* C25: the descriptor a MemoryMappedFile obtained is never closed a second
\* time, a descriptor that is open is one the object still records, and after
\* an open that failed size() is 0.
DescriptorReleasedOnce ==
    /\ mm.os_fd # "closed_twice"
    /\ mm.os_fd = "open" => mm.file_descriptor # -1
    /\ (r_ret.op = "mm_open" /\ r_ret.status = "io_error") => mm_size(mm) = 0

-----------------------------------------------------------------------------
(* Properties of SpecText *)

\* C26: a call of as_string_view() on one entry leaves every text view that
\* the caller holds of a different entry valid, in every residency.
TextViewsKept ==
    [][r_ret'.op = "as_string_view"
       => \A k \in 1..Len(held) :
             (held[k].alive /\ held[k].index # r_ret'.value.index)
             => /\ held'[k].alive
                /\ held'[k].bytes = held[k].bytes
      ]_vars

-----------------------------------------------------------------------------
(* Properties of SpecTrunc: what a reader that is not open returns *)

\* C27: while the reader is not open, also after close() and after an open
\* that raised, identifier() and version() are empty and file_count() is 0.
ClosedReaderIsBlank ==
    ~r_is_open
    => /\ r_header.identifier = <<>>
       /\ r_header.version = <<>>
       /\ file_count = 0

-----------------------------------------------------------------------------
(* Properties of SpecLayout: the rounding *)

\* C28: in a written layout the rounding of the running offset to an entry's
\* alignment never yields an offset below the running offset, whatever the
\* offset and the alignment above 1, so that every entry's data starts at or
\* after the end of the data of every entry before it in the table.
RoundingNeverDecreases ==
    lay.pc = "written"
    => LET head   == calculate_header_size(w_identifier, w_version, lay.rows)
           End(i) == IF i = 0 THEN head ELSE AddU(lay.ats[i], lay.rows[i].size)
       IN  /\ \A i \in 1..Len(lay.rows) :
                 GreaterOne(lay.rows[i].align)
                 => ~LessU(AlignedOffset(End(i - 1), lay.rows[i].align), End(i - 1))
           /\ \A i, j \in 1..Len(lay.rows) :
                 i < j => ~LessU(lay.ats[j], End(i))

=============================================================================
